---------------------------- MODULE Spec2Model ----------------------------
(***************************************************************************)
(* The three notebooks of the repository, run cell by cell in document     *)
(* order on a fresh kernel.                                                *)
(*                                                                         *)
(*   Screening  src/unnamed/part_000   solubility screening with PC-SAFT   *)
(*   Tutorial1  src/unnamed/part_001   components, mixtures and models     *)
(*   Tutorial2  src/notebooks/02_equilibrio.ipynb   equilibrium solvers    *)
(*                                                                         *)
(* A notebook is the sequence of its top-level Python statements; each     *)
(* statement is a record                                                   *)
(*   line   first line of the statement in the notebook file               *)
(*   cell   line of the cell the statement belongs to                      *)
(*   op     what the statement does (import, def, component, mixture,      *)
(*          add, params, model, assign, call, solve, for, root, row)       *)
(*   tgt    the names it binds, in order                                   *)
(*   recv   the receiver of the method call or attribute, "" if none       *)
(*   fn     the function, method, attribute or operator                    *)
(*   args   the names passed or combined, in source order                  *)
(*   kw     the keywords given in the call                                 *)
(*   opt    the string option (component name, mixing rule, activity       *)
(*          model, phase states)                                           *)
(*   val    the numeric literal: mole fractions in units of 1e-8, T and P  *)
(*          of the tutorials in units of 1e-5, the numbers of the          *)
(*          screening notebook in units of 1e-2, list indices as they are  *)
(*   reads  every name the statement loads from the kernel namespace       *)
(*   calls  every call site of the statement, as <<receiver, callee>>      *)
(* The two body statements of the screening loop follow its header.        *)
(***************************************************************************)
EXTENDS Integers, Sequences, FiniteSets, TLC

Screening ==
  << [line |-> 9, cell |-> 4, op |-> "import", tgt |-> <<"np">>, recv |-> "", fn |-> "numpy", args |-> <<>>, kw |-> {}, opt |-> "", val |-> <<>>, reads |-> {}, calls |-> {}],
     [line |-> 10, cell |-> 4, op |-> "import", tgt |-> <<"component", "pcsaft">>, recv |-> "", fn |-> "epcsaftpy", args |-> <<>>, kw |-> {}, opt |-> "", val |-> <<>>, reads |-> {}, calls |-> {}],
     [line |-> 11, cell |-> 4, op |-> "import", tgt |-> <<"plt">>, recv |-> "", fn |-> "matplotlib.pyplot", args |-> <<>>, kw |-> {}, opt |-> "", val |-> <<>>, reads |-> {}, calls |-> {}],
     [line |-> 12, cell |-> 4, op |-> "import", tgt |-> <<"optimize">>, recv |-> "", fn |-> "scipy", args |-> <<>>, kw |-> {}, opt |-> "", val |-> <<>>, reads |-> {}, calls |-> {}],
     [line |-> 21, cell |-> 16, op |-> "def", tgt |-> <<"eos">>, recv |-> "", fn |-> "eos", args |-> <<"SOLVENT", "SOLUTE">>, kw |-> {}, opt |-> "", val |-> <<>>, reads |-> {"pcsaft"}, calls |-> {<<"", "pcsaft">>}],
     [line |-> 26, cell |-> 16, op |-> "assign", tgt |-> <<"R">>, recv |-> "", fn |-> "", args |-> <<>>, kw |-> {}, opt |-> "", val |-> <<>>, reads |-> {}, calls |-> {}],
     [line |-> 27, cell |-> 16, op |-> "def", tgt |-> <<"fobj_sle">>, recv |-> "", fn |-> "fobj_sle", args |-> <<"inc", "T", "P", "dHm", "Tm", "saft">>, kw |-> {}, opt |-> "", val |-> <<>>, reads |-> {"np", "R"}, calls |-> {<<"np", "array">>, <<"saft", "get_lngamma">>, <<"np", "log">>}],
     [line |-> 47, cell |-> 42, op |-> "component", tgt |-> <<"acetonitrile">>, recv |-> "", fn |-> "component", args |-> <<>>, kw |-> {"ms", "sigma", "eps", "kappaAB", "eAB", "sites", "Mw"}, opt |-> "acetonitrile", val |-> <<>>, reads |-> {"component"}, calls |-> {<<"", "component">>}],
     [line |-> 50, cell |-> 42, op |-> "component", tgt |-> <<"butanol">>, recv |-> "", fn |-> "component", args |-> <<>>, kw |-> {"ms", "sigma", "eps", "kappaAB", "eAB", "sites", "Mw"}, opt |-> "1-butanol", val |-> <<>>, reads |-> {"component"}, calls |-> {<<"", "component">>}],
     [line |-> 53, cell |-> 42, op |-> "component", tgt |-> <<"ethanol">>, recv |-> "", fn |-> "component", args |-> <<>>, kw |-> {"ms", "sigma", "eps", "kappaAB", "eAB", "sites", "Mw"}, opt |-> "ethanol", val |-> <<>>, reads |-> {"component"}, calls |-> {<<"", "component">>}],
     [line |-> 56, cell |-> 42, op |-> "component", tgt |-> <<"ethylacetate">>, recv |-> "", fn |-> "component", args |-> <<>>, kw |-> {"ms", "sigma", "eps", "Mw"}, opt |-> "ethyl acetate", val |-> <<>>, reads |-> {"component"}, calls |-> {<<"", "component">>}],
     [line |-> 58, cell |-> 42, op |-> "component", tgt |-> <<"hexane">>, recv |-> "", fn |-> "component", args |-> <<>>, kw |-> {"ms", "sigma", "eps", "Mw"}, opt |-> "hexane", val |-> <<>>, reads |-> {"component"}, calls |-> {<<"", "component">>}],
     [line |-> 60, cell |-> 42, op |-> "component", tgt |-> <<"limonene">>, recv |-> "", fn |-> "component", args |-> <<>>, kw |-> {"ms", "sigma", "eps", "Mw"}, opt |-> "limonene", val |-> <<>>, reads |-> {"component"}, calls |-> {<<"", "component">>}],
     [line |-> 62, cell |-> 42, op |-> "component", tgt |-> <<"propanediol12">>, recv |-> "", fn |-> "component", args |-> <<>>, kw |-> {"ms", "sigma", "eps", "kappaAB", "eAB", "sites", "Mw"}, opt |-> "1,2-propanediol", val |-> <<>>, reads |-> {"component"}, calls |-> {<<"", "component">>}],
     [line |-> 65, cell |-> 42, op |-> "assign", tgt |-> <<"solvents">>, recv |-> "", fn |-> "list", args |-> <<"acetonitrile", "butanol", "ethanol", "ethylacetate", "hexane", "limonene", "propanediol12">>, kw |-> {}, opt |-> "", val |-> <<>>, reads |-> {"acetonitrile", "butanol", "ethanol", "ethylacetate", "hexane", "limonene", "propanediol12"}, calls |-> {}],
     [line |-> 67, cell |-> 42, op |-> "component", tgt |-> <<"borneol">>, recv |-> "", fn |-> "component", args |-> <<>>, kw |-> {"ms", "sigma", "eps", "kappaAB", "eAB", "sites", "Mw"}, opt |-> "Borneol", val |-> <<>>, reads |-> {"component"}, calls |-> {<<"", "component">>}],
     [line |-> 70, cell |-> 42, op |-> "component", tgt |-> <<"camphor">>, recv |-> "", fn |-> "component", args |-> <<>>, kw |-> {"ms", "sigma", "eps", "kappaAB", "eAB", "sites", "Mw"}, opt |-> "d-Camphor", val |-> <<>>, reads |-> {"component"}, calls |-> {<<"", "component">>}],
     [line |-> 73, cell |-> 42, op |-> "component", tgt |-> <<"menthol">>, recv |-> "", fn |-> "component", args |-> <<>>, kw |-> {"ms", "sigma", "eps", "kappaAB", "eAB", "sites", "Mw"}, opt |-> "Menthol", val |-> <<>>, reads |-> {"component"}, calls |-> {<<"", "component">>}],
     [line |-> 76, cell |-> 42, op |-> "component", tgt |-> <<"thymol">>, recv |-> "", fn |-> "component", args |-> <<>>, kw |-> {"ms", "sigma", "eps", "kappaAB", "eAB", "sites", "Mw"}, opt |-> "Thymol", val |-> <<>>, reads |-> {"component"}, calls |-> {<<"", "component">>}],
     [line |-> 79, cell |-> 42, op |-> "assign", tgt |-> <<"solutes">>, recv |-> "", fn |-> "list", args |-> <<"borneol", "camphor", "menthol", "thymol">>, kw |-> {}, opt |-> "", val |-> <<>>, reads |-> {"borneol", "camphor", "menthol", "thymol"}, calls |-> {}],
     [line |-> 81, cell |-> 42, op |-> "assign", tgt |-> <<"Tm">>, recv |-> "", fn |-> "list", args |-> <<>>, kw |-> {}, opt |-> "", val |-> <<48030, 45100, 31568, 32350>>, reads |-> {}, calls |-> {}],
     [line |-> 82, cell |-> 42, op |-> "assign", tgt |-> <<"dHm">>, recv |-> "", fn |-> "list", args |-> <<>>, kw |-> {}, opt |-> "", val |-> <<730000, 620000, 1289000, 1965000>>, reads |-> {}, calls |-> {}],
     [line |-> 126, cell |-> 86, op |-> "call", tgt |-> <<"nSOLV">>, recv |-> "", fn |-> "len", args |-> <<"solvents">>, kw |-> {}, opt |-> "", val |-> <<>>, reads |-> {"len", "solvents"}, calls |-> {<<"", "len">>}],
     [line |-> 127, cell |-> 86, op |-> "call", tgt |-> <<"nSOLU">>, recv |-> "", fn |-> "len", args |-> <<"solutes">>, kw |-> {}, opt |-> "", val |-> <<>>, reads |-> {"len", "solutes"}, calls |-> {<<"", "len">>}],
     [line |-> 128, cell |-> 86, op |-> "assign", tgt |-> <<"T">>, recv |-> "", fn |-> "", args |-> <<>>, kw |-> {}, opt |-> "", val |-> <<29815>>, reads |-> {}, calls |-> {}],
     [line |-> 129, cell |-> 86, op |-> "assign", tgt |-> <<"P">>, recv |-> "", fn |-> "", args |-> <<>>, kw |-> {}, opt |-> "", val |-> <<10132500>>, reads |-> {}, calls |-> {}],
     [line |-> 130, cell |-> 86, op |-> "assign", tgt |-> <<"xs0">>, recv |-> "", fn |-> "", args |-> <<>>, kw |-> {}, opt |-> "", val |-> <<10>>, reads |-> {}, calls |-> {}],
     [line |-> 131, cell |-> 86, op |-> "for", tgt |-> <<"i", "j">>, recv |-> "", fn |-> "range", args |-> <<"nSOLU", "nSOLV">>, kw |-> {}, opt |-> "", val |-> <<2>>, reads |-> {"range", "nSOLU", "nSOLV"}, calls |-> {<<"", "range">>}],
     [line |-> 133, cell |-> 86, op |-> "root", tgt |-> <<"out">>, recv |-> "optimize", fn |-> "root", args |-> <<"fobj_sle", "xs0", "T", "P", "dHm", "Tm", "eos", "solvents", "solutes">>, kw |-> {}, opt |-> "", val |-> <<>>, reads |-> {"optimize", "fobj_sle", "xs0", "T", "P", "dHm", "i", "Tm", "eos", "solvents", "j", "solutes"}, calls |-> {<<"optimize", "root">>, <<"", "eos">>}],
     [line |-> 134, cell |-> 86, op |-> "row", tgt |-> <<>>, recv |-> "", fn |-> "print", args |-> <<"solutes", "i", "solvents", "j", "out">>, kw |-> {}, opt |-> "", val |-> <<>>, reads |-> {"print", "solutes", "i", "solvents", "j", "out"}, calls |-> {<<"", "print">>}] >>

Tutorial1 ==
  << [line |-> 40, cell |-> 35, op |-> "import", tgt |-> <<"np">>, recv |-> "", fn |-> "numpy", args |-> <<>>, kw |-> {}, opt |-> "", val |-> <<>>, reads |-> {}, calls |-> {}],
     [line |-> 41, cell |-> 35, op |-> "import", tgt |-> <<"mixture", "component", "virialgamma", "preos">>, recv |-> "", fn |-> "phasepy", args |-> <<>>, kw |-> {}, opt |-> "", val |-> <<>>, reads |-> {}, calls |-> {}],
     [line |-> 42, cell |-> 35, op |-> "import", tgt |-> <<"plt">>, recv |-> "", fn |-> "matplotlib.pyplot", args |-> <<>>, kw |-> {}, opt |-> "", val |-> <<>>, reads |-> {}, calls |-> {}],
     [line |-> 85, cell |-> 69, op |-> "component", tgt |-> <<"water">>, recv |-> "", fn |-> "component", args |-> <<>>, kw |-> {"name", "Tc", "Pc", "Zc", "Vc", "w", "Ant", "GC", "ri", "qi"}, opt |-> "water", val |-> <<>>, reads |-> {"component"}, calls |-> {<<"", "component">>}],
     [line |-> 89, cell |-> 69, op |-> "component", tgt |-> <<"ethanol">>, recv |-> "", fn |-> "component", args |-> <<>>, kw |-> {"name", "Tc", "Pc", "Zc", "Vc", "w", "Ant", "GC", "ri", "qi"}, opt |-> "ethanol", val |-> <<>>, reads |-> {"component"}, calls |-> {<<"", "component">>}],
     [line |-> 93, cell |-> 69, op |-> "call", tgt |-> <<>>, recv |-> "", fn |-> "print", args |-> <<"water">>, kw |-> {}, opt |-> "", val |-> <<>>, reads |-> {"print", "water"}, calls |-> {<<"", "print">>, <<"water", "psat">>}],
     [line |-> 94, cell |-> 69, op |-> "call", tgt |-> <<>>, recv |-> "", fn |-> "print", args |-> <<"water">>, kw |-> {}, opt |-> "", val |-> <<>>, reads |-> {"print", "water"}, calls |-> {<<"", "print">>, <<"water", "vlrackett">>}],
     [line |-> 95, cell |-> 69, op |-> "call", tgt |-> <<>>, recv |-> "", fn |-> "print", args |-> <<"ethanol">>, kw |-> {}, opt |-> "", val |-> <<>>, reads |-> {"print", "ethanol"}, calls |-> {<<"", "print">>, <<"ethanol", "psat">>}],
     [line |-> 96, cell |-> 69, op |-> "call", tgt |-> <<>>, recv |-> "", fn |-> "print", args |-> <<"ethanol">>, kw |-> {}, opt |-> "", val |-> <<>>, reads |-> {"print", "ethanol"}, calls |-> {<<"", "print">>, <<"ethanol", "vlrackett">>}],
     [line |-> 126, cell |-> 107, op |-> "model", tgt |-> <<"eos">>, recv |-> "", fn |-> "preos", args |-> <<"water">>, kw |-> {}, opt |-> "", val |-> <<>>, reads |-> {"preos", "water"}, calls |-> {<<"", "preos">>}],
     [line |-> 127, cell |-> 107, op |-> "call", tgt |-> <<>>, recv |-> "", fn |-> "print", args |-> <<"eos">>, kw |-> {}, opt |-> "", val |-> <<>>, reads |-> {"print", "eos"}, calls |-> {<<"", "print">>, <<"eos", "psat">>}],
     [line |-> 128, cell |-> 107, op |-> "call", tgt |-> <<>>, recv |-> "", fn |-> "print", args |-> <<"eos">>, kw |-> {}, opt |-> "", val |-> <<>>, reads |-> {"print", "eos"}, calls |-> {<<"", "print">>, <<"eos", "density">>}],
     [line |-> 129, cell |-> 107, op |-> "call", tgt |-> <<>>, recv |-> "", fn |-> "print", args |-> <<"eos">>, kw |-> {}, opt |-> "", val |-> <<>>, reads |-> {"print", "eos"}, calls |-> {<<"", "print">>, <<"eos", "density">>}],
     [line |-> 132, cell |-> 107, op |-> "component", tgt |-> <<"ethanol">>, recv |-> "", fn |-> "component", args |-> <<>>, kw |-> {"name", "Tc", "Pc", "Zc", "Vc", "w", "c", "Ant", "GC", "ri", "qi"}, opt |-> "ethanol", val |-> <<>>, reads |-> {"component"}, calls |-> {<<"", "component">>}],
     [line |-> 135, cell |-> 107, op |-> "model", tgt |-> <<"eos">>, recv |-> "", fn |-> "preos", args |-> <<"ethanol">>, kw |-> {"volume_translation"}, opt |-> "", val |-> <<>>, reads |-> {"preos", "ethanol"}, calls |-> {<<"", "preos">>}],
     [line |-> 136, cell |-> 107, op |-> "call", tgt |-> <<>>, recv |-> "", fn |-> "print", args |-> <<"eos">>, kw |-> {}, opt |-> "", val |-> <<>>, reads |-> {"print", "eos"}, calls |-> {<<"", "print">>, <<"eos", "psat">>}],
     [line |-> 137, cell |-> 107, op |-> "call", tgt |-> <<>>, recv |-> "", fn |-> "print", args |-> <<"eos">>, kw |-> {}, opt |-> "", val |-> <<>>, reads |-> {"print", "eos"}, calls |-> {<<"", "print">>, <<"eos", "density">>}],
     [line |-> 138, cell |-> 107, op |-> "call", tgt |-> <<>>, recv |-> "", fn |-> "print", args |-> <<"eos">>, kw |-> {}, opt |-> "", val |-> <<>>, reads |-> {"print", "eos"}, calls |-> {<<"", "print">>, <<"eos", "density">>}],
     [line |-> 167, cell |-> 151, op |-> "component", tgt |-> <<"water">>, recv |-> "", fn |-> "component", args |-> <<>>, kw |-> {"name", "Tc", "Pc", "Zc", "Vc", "w", "Ant", "GC", "ri", "qi"}, opt |-> "water", val |-> <<>>, reads |-> {"component"}, calls |-> {<<"", "component">>}],
     [line |-> 172, cell |-> 151, op |-> "model", tgt |-> <<"eosp">>, recv |-> "", fn |-> "preos", args |-> <<"water">>, kw |-> {}, opt |-> "", val |-> <<>>, reads |-> {"preos", "water"}, calls |-> {<<"", "preos">>}],
     [line |-> 175, cell |-> 151, op |-> "assign", tgt |-> <<"T">>, recv |-> "", fn |-> "", args |-> <<>>, kw |-> {}, opt |-> "", val |-> <<34000000>>, reads |-> {}, calls |-> {}],
     [line |-> 176, cell |-> 151, op |-> "assign", tgt |-> <<"P">>, recv |-> "", fn |-> "", args |-> <<>>, kw |-> {}, opt |-> "", val |-> <<100000>>, reads |-> {}, calls |-> {}],
     [line |-> 178, cell |-> 151, op |-> "call", tgt |-> <<"Psat", "vlsat", "vvsat">>, recv |-> "eosp", fn |-> "psat", args |-> <<"T">>, kw |-> {}, opt |-> "", val |-> <<>>, reads |-> {"eosp", "T"}, calls |-> {<<"eosp", "psat">>}],
     [line |-> 181, cell |-> 151, op |-> "call", tgt |-> <<"logfugl", "vlsat">>, recv |-> "eosp", fn |-> "logfug", args |-> <<"T", "Psat">>, kw |-> {}, opt |-> "L", val |-> <<>>, reads |-> {"eosp", "T", "Psat"}, calls |-> {<<"eosp", "logfug">>}],
     [line |-> 182, cell |-> 151, op |-> "call", tgt |-> <<"logfugv", "vvsat">>, recv |-> "eosp", fn |-> "logfug", args |-> <<"T", "Psat">>, kw |-> {}, opt |-> "V", val |-> <<>>, reads |-> {"eosp", "T", "Psat"}, calls |-> {<<"eosp", "logfug">>}],
     [line |-> 186, cell |-> 151, op |-> "call", tgt |-> <<"Tfactor", "Pfactor", "rofactor", "tenfactor", "zfactor">>, recv |-> "eosp", fn |-> "sgt_adim", args |-> <<"T">>, kw |-> {}, opt |-> "", val |-> <<>>, reads |-> {"eosp", "T"}, calls |-> {<<"eosp", "sgt_adim">>}],
     [line |-> 188, cell |-> 151, op |-> "call", tgt |-> <<>>, recv |-> "", fn |-> "print", args |-> <<"Tfactor", "Pfactor", "rofactor", "tenfactor", "zfactor">>, kw |-> {}, opt |-> "", val |-> <<>>, reads |-> {"print", "Tfactor", "Pfactor", "rofactor", "tenfactor", "zfactor"}, calls |-> {<<"", "print">>}],
     [line |-> 189, cell |-> 151, op |-> "assign", tgt |-> <<"Tad">>, recv |-> "", fn |-> "arith", args |-> <<"T", "Tfactor">>, kw |-> {}, opt |-> "", val |-> <<>>, reads |-> {"T", "Tfactor"}, calls |-> {}],
     [line |-> 190, cell |-> 151, op |-> "assign", tgt |-> <<"rholad">>, recv |-> "", fn |-> "arith", args |-> <<"vlsat", "rofactor">>, kw |-> {}, opt |-> "", val |-> <<>>, reads |-> {"vlsat", "rofactor"}, calls |-> {}],
     [line |-> 191, cell |-> 151, op |-> "assign", tgt |-> <<"rhovad">>, recv |-> "", fn |-> "arith", args |-> <<"vvsat", "rofactor">>, kw |-> {}, opt |-> "", val |-> <<>>, reads |-> {"vvsat", "rofactor"}, calls |-> {}],
     [line |-> 193, cell |-> 151, op |-> "call", tgt |-> <<"mul">>, recv |-> "eosp", fn |-> "muad", args |-> <<"rholad", "Tad">>, kw |-> {}, opt |-> "", val |-> <<>>, reads |-> {"eosp", "rholad", "Tad"}, calls |-> {<<"eosp", "muad">>}],
     [line |-> 194, cell |-> 151, op |-> "call", tgt |-> <<"muv">>, recv |-> "eosp", fn |-> "muad", args |-> <<"rhovad", "Tad">>, kw |-> {}, opt |-> "", val |-> <<>>, reads |-> {"eosp", "rhovad", "Tad"}, calls |-> {<<"eosp", "muad">>}],
     [line |-> 196, cell |-> 151, op |-> "call", tgt |-> <<>>, recv |-> "", fn |-> "print", args |-> <<"logfugl", "logfugv">>, kw |-> {}, opt |-> "", val |-> <<>>, reads |-> {"print", "np", "logfugl", "logfugv"}, calls |-> {<<"", "print">>, <<"np", "allclose">>}],
     [line |-> 197, cell |-> 151, op |-> "call", tgt |-> <<>>, recv |-> "", fn |-> "print", args |-> <<"mul", "muv">>, kw |-> {}, opt |-> "", val |-> <<>>, reads |-> {"print", "np", "mul", "muv"}, calls |-> {<<"", "print">>, <<"np", "allclose">>}],
     [line |-> 231, cell |-> 214, op |-> "mixture", tgt |-> <<"mix">>, recv |-> "", fn |-> "mixture", args |-> <<"ethanol", "water">>, kw |-> {}, opt |-> "", val |-> <<>>, reads |-> {"mixture", "ethanol", "water"}, calls |-> {<<"", "mixture">>}],
     [line |-> 233, cell |-> 214, op |-> "mixture", tgt |-> <<"mix">>, recv |-> "", fn |-> "+", args |-> <<"ethanol", "water">>, kw |-> {}, opt |-> "", val |-> <<>>, reads |-> {"ethanol", "water"}, calls |-> {}],
     [line |-> 236, cell |-> 214, op |-> "call", tgt |-> <<>>, recv |-> "", fn |-> "print", args |-> <<"mix">>, kw |-> {}, opt |-> "", val |-> <<>>, reads |-> {"print", "mix"}, calls |-> {<<"", "print">>}],
     [line |-> 237, cell |-> 214, op |-> "call", tgt |-> <<>>, recv |-> "", fn |-> "print", args |-> <<"mix">>, kw |-> {}, opt |-> "", val |-> <<>>, reads |-> {"print", "mix"}, calls |-> {<<"", "print">>}],
     [line |-> 238, cell |-> 214, op |-> "call", tgt |-> <<>>, recv |-> "", fn |-> "print", args |-> <<"mix">>, kw |-> {}, opt |-> "", val |-> <<>>, reads |-> {"print", "mix"}, calls |-> {<<"", "print">>, <<"mix", "psat">>}],
     [line |-> 239, cell |-> 214, op |-> "call", tgt |-> <<>>, recv |-> "", fn |-> "print", args |-> <<"mix">>, kw |-> {}, opt |-> "", val |-> <<>>, reads |-> {"print", "mix"}, calls |-> {<<"", "print">>, <<"mix", "vlrackett">>}],
     [line |-> 266, cell |-> 250, op |-> "component", tgt |-> <<"mtbe">>, recv |-> "", fn |-> "component", args |-> <<>>, kw |-> {"name", "Tc", "Pc", "Zc", "Vc", "w", "Ant", "GC"}, opt |-> "mtbe", val |-> <<>>, reads |-> {"component"}, calls |-> {<<"", "component">>}],
     [line |-> 271, cell |-> 250, op |-> "mixture", tgt |-> <<"mix">>, recv |-> "", fn |-> "mixture", args |-> <<"ethanol", "water">>, kw |-> {}, opt |-> "", val |-> <<>>, reads |-> {"mixture", "ethanol", "water"}, calls |-> {<<"", "mixture">>}],
     [line |-> 272, cell |-> 250, op |-> "add", tgt |-> <<>>, recv |-> "mix", fn |-> "add_component", args |-> <<"mtbe">>, kw |-> {}, opt |-> "", val |-> <<>>, reads |-> {"mix", "mtbe"}, calls |-> {<<"mix", "add_component">>}],
     [line |-> 275, cell |-> 250, op |-> "mixture", tgt |-> <<"mix">>, recv |-> "", fn |-> "+", args |-> <<"ethanol", "water", "mtbe">>, kw |-> {}, opt |-> "", val |-> <<>>, reads |-> {"ethanol", "water", "mtbe"}, calls |-> {}],
     [line |-> 278, cell |-> 250, op |-> "call", tgt |-> <<>>, recv |-> "", fn |-> "print", args |-> <<"mix">>, kw |-> {}, opt |-> "", val |-> <<>>, reads |-> {"print", "mix"}, calls |-> {<<"", "print">>}],
     [line |-> 279, cell |-> 250, op |-> "call", tgt |-> <<>>, recv |-> "", fn |-> "print", args |-> <<"mix">>, kw |-> {}, opt |-> "", val |-> <<>>, reads |-> {"print", "mix"}, calls |-> {<<"", "print">>}],
     [line |-> 280, cell |-> 250, op |-> "call", tgt |-> <<>>, recv |-> "", fn |-> "print", args |-> <<"mix">>, kw |-> {}, opt |-> "", val |-> <<>>, reads |-> {"print", "mix"}, calls |-> {<<"", "print">>, <<"mix", "psat">>}],
     [line |-> 281, cell |-> 250, op |-> "call", tgt |-> <<>>, recv |-> "", fn |-> "print", args |-> <<"mix">>, kw |-> {}, opt |-> "", val |-> <<>>, reads |-> {"print", "mix"}, calls |-> {<<"", "print">>, <<"mix", "vlrackett">>}],
     [line |-> 297, cell |-> 292, op |-> "component", tgt |-> <<"water">>, recv |-> "", fn |-> "component", args |-> <<>>, kw |-> {"name", "Tc", "Pc", "Zc", "Vc", "w", "GC", "Mw"}, opt |-> "water", val |-> <<>>, reads |-> {"component"}, calls |-> {<<"", "component">>}],
     [line |-> 301, cell |-> 292, op |-> "component", tgt |-> <<"ethanol">>, recv |-> "", fn |-> "component", args |-> <<>>, kw |-> {"name", "Tc", "Pc", "Zc", "Vc", "w", "GC", "Mw"}, opt |-> "ethanol", val |-> <<>>, reads |-> {"component"}, calls |-> {<<"", "component">>}],
     [line |-> 304, cell |-> 292, op |-> "mixture", tgt |-> <<"mix">>, recv |-> "", fn |-> "mixture", args |-> <<"water", "ethanol">>, kw |-> {}, opt |-> "", val |-> <<>>, reads |-> {"mixture", "water", "ethanol"}, calls |-> {<<"", "mixture">>}],
     [line |-> 306, cell |-> 292, op |-> "params", tgt |-> <<>>, recv |-> "mix", fn |-> "unifac", args |-> <<>>, kw |-> {}, opt |-> "", val |-> <<>>, reads |-> {"mix"}, calls |-> {<<"mix", "unifac">>}],
     [line |-> 307, cell |-> 292, op |-> "model", tgt |-> <<"eos">>, recv |-> "", fn |-> "preos", args |-> <<"mix">>, kw |-> {}, opt |-> "mhv_unifac", val |-> <<>>, reads |-> {"preos", "mix"}, calls |-> {<<"", "preos">>}],
     [line |-> 309, cell |-> 292, op |-> "assign", tgt |-> <<"T">>, recv |-> "", fn |-> "", args |-> <<>>, kw |-> {}, opt |-> "", val |-> <<34000000>>, reads |-> {}, calls |-> {}],
     [line |-> 310, cell |-> 292, op |-> "assign", tgt |-> <<"P">>, recv |-> "", fn |-> "", args |-> <<>>, kw |-> {}, opt |-> "", val |-> <<100000>>, reads |-> {}, calls |-> {}],
     [line |-> 311, cell |-> 292, op |-> "assign", tgt |-> <<"x">>, recv |-> "np", fn |-> "array", args |-> <<>>, kw |-> {}, opt |-> "", val |-> <<30000000, 70000000>>, reads |-> {"np"}, calls |-> {<<"np", "array">>}],
     [line |-> 349, cell |-> 326, op |-> "call", tgt |-> <<"lnphi", "v">>, recv |-> "eos", fn |-> "logfugef", args |-> <<"x", "T", "P">>, kw |-> {}, opt |-> "L", val |-> <<>>, reads |-> {"eos", "x", "T", "P"}, calls |-> {<<"eos", "logfugef">>}],
     [line |-> 350, cell |-> 326, op |-> "call", tgt |-> <<"lnphimix", "v">>, recv |-> "eos", fn |-> "logfugmix", args |-> <<"x", "T", "P">>, kw |-> {}, opt |-> "L", val |-> <<>>, reads |-> {"eos", "x", "T", "P"}, calls |-> {<<"eos", "logfugmix">>}],
     [line |-> 352, cell |-> 326, op |-> "call", tgt |-> <<>>, recv |-> "", fn |-> "print", args |-> <<"lnphimix", "lnphi", "x">>, kw |-> {}, opt |-> "", val |-> <<>>, reads |-> {"print", "np", "lnphimix", "lnphi", "x"}, calls |-> {<<"", "print">>, <<"np", "allclose">>, <<"np", "dot">>}],
     [line |-> 354, cell |-> 326, op |-> "assign", tgt |-> <<"rhofactor">>, recv |-> "eos", fn |-> "b", args |-> <<>>, kw |-> {}, opt |-> "", val |-> <<0>>, reads |-> {"eos"}, calls |-> {}],
     [line |-> 355, cell |-> 326, op |-> "assign", tgt |-> <<"rhoad">>, recv |-> "", fn |-> "arith", args |-> <<"v", "rofactor">>, kw |-> {}, opt |-> "", val |-> <<>>, reads |-> {"v", "rofactor"}, calls |-> {}],
     [line |-> 356, cell |-> 326, op |-> "assign", tgt |-> <<"rhovector">>, recv |-> "", fn |-> "arith", args |-> <<"x", "rhoad">>, kw |-> {}, opt |-> "", val |-> <<>>, reads |-> {"x", "rhoad"}, calls |-> {}],
     [line |-> 358, cell |-> 326, op |-> "call", tgt |-> <<>>, recv |-> "eos", fn |-> "muad", args |-> <<"rhovector", "T">>, kw |-> {}, opt |-> "", val |-> <<>>, reads |-> {"eos", "rhovector", "T"}, calls |-> {<<"eos", "muad">>}],
     [line |-> 411, cell |-> 405, op |-> "mixture", tgt |-> <<"mix">>, recv |-> "", fn |-> "+", args |-> <<"ethanol", "water">>, kw |-> {}, opt |-> "", val |-> <<>>, reads |-> {"ethanol", "water"}, calls |-> {}],
     [line |-> 413, cell |-> 405, op |-> "assign", tgt |-> <<"alpha">>, recv |-> "np", fn |-> "array", args |-> <<>>, kw |-> {}, opt |-> "", val |-> <<>>, reads |-> {"np"}, calls |-> {<<"np", "array">>}],
     [line |-> 415, cell |-> 405, op |-> "assign", tgt |-> <<"Aij0">>, recv |-> "np", fn |-> "array", args |-> <<>>, kw |-> {}, opt |-> "", val |-> <<>>, reads |-> {"np"}, calls |-> {<<"np", "array">>}],
     [line |-> 417, cell |-> 405, op |-> "assign", tgt |-> <<"Aij1">>, recv |-> "np", fn |-> "array", args |-> <<>>, kw |-> {}, opt |-> "", val |-> <<>>, reads |-> {"np"}, calls |-> {<<"np", "array">>}],
     [line |-> 419, cell |-> 405, op |-> "params", tgt |-> <<>>, recv |-> "mix", fn |-> "NRTL", args |-> <<"alpha", "Aij0", "Aij1">>, kw |-> {}, opt |-> "", val |-> <<>>, reads |-> {"mix", "alpha", "Aij0", "Aij1"}, calls |-> {<<"mix", "NRTL">>}],
     [line |-> 420, cell |-> 405, op |-> "model", tgt |-> <<"eos">>, recv |-> "", fn |-> "virialgamma", args |-> <<"mix">>, kw |-> {"virialmodel", "actmodel"}, opt |-> "nrtl", val |-> <<>>, reads |-> {"virialgamma", "mix"}, calls |-> {<<"", "virialgamma">>}],
     [line |-> 451, cell |-> 445, op |-> "mixture", tgt |-> <<"mix">>, recv |-> "", fn |-> "+", args |-> <<"ethanol", "water">>, kw |-> {}, opt |-> "", val |-> <<>>, reads |-> {"ethanol", "water"}, calls |-> {}],
     [line |-> 453, cell |-> 445, op |-> "assign", tgt |-> <<"Aij">>, recv |-> "np", fn |-> "array", args |-> <<>>, kw |-> {}, opt |-> "", val |-> <<>>, reads |-> {"np"}, calls |-> {<<"np", "array">>}],
     [line |-> 455, cell |-> 445, op |-> "params", tgt |-> <<>>, recv |-> "mix", fn |-> "wilson", args |-> <<"Aij">>, kw |-> {}, opt |-> "", val |-> <<>>, reads |-> {"mix", "Aij"}, calls |-> {<<"mix", "wilson">>}],
     [line |-> 456, cell |-> 445, op |-> "model", tgt |-> <<"eos">>, recv |-> "", fn |-> "virialgamma", args |-> <<"mix">>, kw |-> {"virialmodel", "actmodel"}, opt |-> "wilson", val |-> <<>>, reads |-> {"virialgamma", "mix"}, calls |-> {<<"", "virialgamma">>}],
     [line |-> 488, cell |-> 482, op |-> "mixture", tgt |-> <<"mix">>, recv |-> "", fn |-> "+", args |-> <<"ethanol", "water">>, kw |-> {}, opt |-> "", val |-> <<>>, reads |-> {"ethanol", "water"}, calls |-> {}],
     [line |-> 491, cell |-> 482, op |-> "assign", tgt |-> <<"A12", "A21">>, recv |-> "", fn |-> "", args |-> <<>>, kw |-> {}, opt |-> "", val |-> <<>>, reads |-> {}, calls |-> {}],
     [line |-> 492, cell |-> 482, op |-> "assign", tgt |-> <<"Aij0">>, recv |-> "np", fn |-> "array", args |-> <<"A12", "A21">>, kw |-> {}, opt |-> "", val |-> <<>>, reads |-> {"np", "A12", "A21"}, calls |-> {<<"np", "array">>}],
     [line |-> 493, cell |-> 482, op |-> "params", tgt |-> <<>>, recv |-> "mix", fn |-> "uniquac", args |-> <<"Aij0">>, kw |-> {}, opt |-> "", val |-> <<>>, reads |-> {"mix", "Aij0"}, calls |-> {<<"mix", "uniquac">>}],
     [line |-> 494, cell |-> 482, op |-> "model", tgt |-> <<"eos">>, recv |-> "", fn |-> "virialgamma", args |-> <<"mix">>, kw |-> {"virialmodel", "actmodel"}, opt |-> "uniquac", val |-> <<>>, reads |-> {"virialgamma", "mix"}, calls |-> {<<"", "virialgamma">>}],
     [line |-> 526, cell |-> 518, op |-> "component", tgt |-> <<"ethanol2">>, recv |-> "", fn |-> "component", args |-> <<>>, kw |-> {"name", "Tc", "Pc", "Zc", "Vc", "w", "c", "Ant", "GC", "ri", "qi"}, opt |-> "ethanol", val |-> <<>>, reads |-> {"component"}, calls |-> {<<"", "component">>}],
     [line |-> 530, cell |-> 518, op |-> "mixture", tgt |-> <<"mix">>, recv |-> "", fn |-> "+", args |-> <<"ethanol2", "water">>, kw |-> {}, opt |-> "", val |-> <<>>, reads |-> {"ethanol2", "water"}, calls |-> {}],
     [line |-> 532, cell |-> 518, op |-> "params", tgt |-> <<>>, recv |-> "mix", fn |-> "original_unifac", args |-> <<>>, kw |-> {}, opt |-> "", val |-> <<>>, reads |-> {"mix"}, calls |-> {<<"mix", "original_unifac">>}],
     [line |-> 533, cell |-> 518, op |-> "model", tgt |-> <<"eos">>, recv |-> "", fn |-> "virialgamma", args |-> <<"mix">>, kw |-> {"virialmodel", "actmodel"}, opt |-> "original_unifac", val |-> <<>>, reads |-> {"virialgamma", "mix"}, calls |-> {<<"", "virialgamma">>}],
     [line |-> 544, cell |-> 537, op |-> "mixture", tgt |-> <<"mix">>, recv |-> "", fn |-> "+", args |-> <<"ethanol", "water">>, kw |-> {}, opt |-> "", val |-> <<>>, reads |-> {"ethanol", "water"}, calls |-> {}],
     [line |-> 546, cell |-> 537, op |-> "params", tgt |-> <<>>, recv |-> "mix", fn |-> "unifac", args |-> <<>>, kw |-> {}, opt |-> "", val |-> <<>>, reads |-> {"mix"}, calls |-> {<<"mix", "unifac">>}],
     [line |-> 547, cell |-> 537, op |-> "model", tgt |-> <<"eos">>, recv |-> "", fn |-> "virialgamma", args |-> <<"mix">>, kw |-> {"virialmodel", "actmodel"}, opt |-> "unifac", val |-> <<>>, reads |-> {"virialgamma", "mix"}, calls |-> {<<"", "virialgamma">>}],
     [line |-> 576, cell |-> 570, op |-> "mixture", tgt |-> <<"mix">>, recv |-> "", fn |-> "+", args |-> <<"ethanol", "water">>, kw |-> {}, opt |-> "", val |-> <<>>, reads |-> {"ethanol", "water"}, calls |-> {}],
     [line |-> 578, cell |-> 570, op |-> "assign", tgt |-> <<"Kij">>, recv |-> "np", fn |-> "array", args |-> <<>>, kw |-> {}, opt |-> "", val |-> <<>>, reads |-> {"np"}, calls |-> {<<"np", "array">>}],
     [line |-> 579, cell |-> 570, op |-> "params", tgt |-> <<>>, recv |-> "mix", fn |-> "kij_cubic", args |-> <<"Kij">>, kw |-> {}, opt |-> "", val |-> <<>>, reads |-> {"mix", "Kij"}, calls |-> {<<"mix", "kij_cubic">>}],
     [line |-> 580, cell |-> 570, op |-> "model", tgt |-> <<"eos">>, recv |-> "", fn |-> "preos", args |-> <<"mix">>, kw |-> {"mixrule"}, opt |-> "qmr", val |-> <<>>, reads |-> {"preos", "mix"}, calls |-> {<<"", "preos">>}],
     [line |-> 613, cell |-> 607, op |-> "mixture", tgt |-> <<"mix">>, recv |-> "", fn |-> "+", args |-> <<"ethanol", "water">>, kw |-> {}, opt |-> "", val |-> <<>>, reads |-> {"ethanol", "water"}, calls |-> {}],
     [line |-> 615, cell |-> 607, op |-> "assign", tgt |-> <<"alpha">>, recv |-> "np", fn |-> "array", args |-> <<>>, kw |-> {}, opt |-> "", val |-> <<>>, reads |-> {"np"}, calls |-> {<<"np", "array">>}],
     [line |-> 617, cell |-> 607, op |-> "assign", tgt |-> <<"Aij0">>, recv |-> "np", fn |-> "array", args |-> <<>>, kw |-> {}, opt |-> "", val |-> <<>>, reads |-> {"np"}, calls |-> {<<"np", "array">>}],
     [line |-> 619, cell |-> 607, op |-> "assign", tgt |-> <<"Aij1">>, recv |-> "np", fn |-> "array", args |-> <<>>, kw |-> {}, opt |-> "", val |-> <<>>, reads |-> {"np"}, calls |-> {<<"np", "array">>}],
     [line |-> 621, cell |-> 607, op |-> "params", tgt |-> <<>>, recv |-> "mix", fn |-> "NRTL", args |-> <<"alpha", "Aij0", "Aij1">>, kw |-> {}, opt |-> "", val |-> <<>>, reads |-> {"mix", "alpha", "Aij0", "Aij1"}, calls |-> {<<"mix", "NRTL">>}],
     [line |-> 622, cell |-> 607, op |-> "model", tgt |-> <<"eos">>, recv |-> "", fn |-> "preos", args |-> <<"mix">>, kw |-> {"mixrule"}, opt |-> "mhv_nrtl", val |-> <<>>, reads |-> {"preos", "mix"}, calls |-> {<<"", "preos">>}],
     [line |-> 632, cell |-> 626, op |-> "mixture", tgt |-> <<"mix">>, recv |-> "", fn |-> "+", args |-> <<"ethanol", "water">>, kw |-> {}, opt |-> "", val |-> <<>>, reads |-> {"ethanol", "water"}, calls |-> {}],
     [line |-> 634, cell |-> 626, op |-> "params", tgt |-> <<>>, recv |-> "mix", fn |-> "unifac", args |-> <<>>, kw |-> {}, opt |-> "", val |-> <<>>, reads |-> {"mix"}, calls |-> {<<"mix", "unifac">>}],
     [line |-> 635, cell |-> 626, op |-> "model", tgt |-> <<"eos">>, recv |-> "", fn |-> "preos", args |-> <<"mix">>, kw |-> {"mixrule"}, opt |-> "mhv_unifac", val |-> <<>>, reads |-> {"preos", "mix"}, calls |-> {<<"", "preos">>}],
     [line |-> 675, cell |-> 669, op |-> "mixture", tgt |-> <<"mix">>, recv |-> "", fn |-> "+", args |-> <<"ethanol", "water">>, kw |-> {}, opt |-> "", val |-> <<>>, reads |-> {"ethanol", "water"}, calls |-> {}],
     [line |-> 679, cell |-> 669, op |-> "assign", tgt |-> <<"A12", "A21">>, recv |-> "", fn |-> "", args |-> <<>>, kw |-> {}, opt |-> "", val |-> <<>>, reads |-> {}, calls |-> {}],
     [line |-> 680, cell |-> 669, op |-> "assign", tgt |-> <<"Aij0">>, recv |-> "np", fn |-> "array", args |-> <<"A12", "A21">>, kw |-> {}, opt |-> "", val |-> <<>>, reads |-> {"np", "A12", "A21"}, calls |-> {<<"np", "array">>}],
     [line |-> 681, cell |-> 669, op |-> "params", tgt |-> <<>>, recv |-> "mix", fn |-> "uniquac", args |-> <<"Aij0">>, kw |-> {}, opt |-> "", val |-> <<>>, reads |-> {"mix", "Aij0"}, calls |-> {<<"mix", "uniquac">>}],
     [line |-> 682, cell |-> 669, op |-> "model", tgt |-> <<"eos">>, recv |-> "", fn |-> "preos", args |-> <<"mix">>, kw |-> {"mixrule"}, opt |-> "ws_uniquac", val |-> <<>>, reads |-> {"preos", "mix"}, calls |-> {<<"", "preos">>}] >>

Tutorial2 ==
  << [line |-> 39, cell |-> 34, op |-> "import", tgt |-> <<"np">>, recv |-> "", fn |-> "numpy", args |-> <<>>, kw |-> {}, opt |-> "", val |-> <<>>, reads |-> {}, calls |-> {}],
     [line |-> 40, cell |-> 34, op |-> "import", tgt |-> <<"mixture", "component", "preos">>, recv |-> "", fn |-> "phasepy", args |-> <<>>, kw |-> {}, opt |-> "", val |-> <<>>, reads |-> {}, calls |-> {}],
     [line |-> 41, cell |-> 34, op |-> "import", tgt |-> <<"flash">>, recv |-> "", fn |-> "phasepy.equilibrium", args |-> <<>>, kw |-> {}, opt |-> "", val |-> <<>>, reads |-> {}, calls |-> {}],
     [line |-> 82, cell |-> 55, op |-> "component", tgt |-> <<"water">>, recv |-> "", fn |-> "component", args |-> <<>>, kw |-> {"name", "Tc", "Pc", "w", "GC"}, opt |-> "water", val |-> <<>>, reads |-> {"component"}, calls |-> {<<"", "component">>}],
     [line |-> 85, cell |-> 55, op |-> "component", tgt |-> <<"ethanol">>, recv |-> "", fn |-> "component", args |-> <<>>, kw |-> {"name", "Tc", "Pc", "w", "GC"}, opt |-> "ethanol", val |-> <<>>, reads |-> {"component"}, calls |-> {<<"", "component">>}],
     [line |-> 88, cell |-> 55, op |-> "mixture", tgt |-> <<"mix">>, recv |-> "", fn |-> "mixture", args |-> <<"ethanol", "water">>, kw |-> {}, opt |-> "", val |-> <<>>, reads |-> {"mixture", "ethanol", "water"}, calls |-> {<<"", "mixture">>}],
     [line |-> 90, cell |-> 55, op |-> "params", tgt |-> <<>>, recv |-> "mix", fn |-> "unifac", args |-> <<>>, kw |-> {}, opt |-> "", val |-> <<>>, reads |-> {"mix"}, calls |-> {<<"mix", "unifac">>}],
     [line |-> 91, cell |-> 55, op |-> "model", tgt |-> <<"eos">>, recv |-> "", fn |-> "preos", args |-> <<"mix">>, kw |-> {}, opt |-> "mhv_unifac", val |-> <<>>, reads |-> {"preos", "mix"}, calls |-> {<<"", "preos">>}],
     [line |-> 94, cell |-> 55, op |-> "assign", tgt |-> <<"T">>, recv |-> "", fn |-> "", args |-> <<>>, kw |-> {}, opt |-> "", val |-> <<35000000>>, reads |-> {}, calls |-> {}],
     [line |-> 95, cell |-> 55, op |-> "assign", tgt |-> <<"P">>, recv |-> "", fn |-> "", args |-> <<>>, kw |-> {}, opt |-> "", val |-> <<80000>>, reads |-> {}, calls |-> {}],
     [line |-> 96, cell |-> 55, op |-> "assign", tgt |-> <<"Z">>, recv |-> "np", fn |-> "array", args |-> <<>>, kw |-> {}, opt |-> "", val |-> <<40000000, 60000000>>, reads |-> {"np"}, calls |-> {<<"np", "array">>}],
     [line |-> 99, cell |-> 55, op |-> "assign", tgt |-> <<"x0">>, recv |-> "np", fn |-> "array", args |-> <<>>, kw |-> {}, opt |-> "", val |-> <<23512692, 76487308>>, reads |-> {"np"}, calls |-> {<<"np", "array">>}],
     [line |-> 100, cell |-> 55, op |-> "assign", tgt |-> <<"y0">>, recv |-> "np", fn |-> "array", args |-> <<>>, kw |-> {}, opt |-> "", val |-> <<50000000, 50000000>>, reads |-> {"np"}, calls |-> {<<"np", "array">>}],
     [line |-> 103, cell |-> 55, op |-> "solve", tgt |-> <<>>, recv |-> "", fn |-> "flash", args |-> <<"x0", "y0", "Z", "T", "P", "eos">>, kw |-> {"full_output"}, opt |-> "LV", val |-> <<>>, reads |-> {"flash", "x0", "y0", "Z", "T", "P", "eos"}, calls |-> {<<"", "flash">>}],
     [line |-> 143, cell |-> 116, op |-> "component", tgt |-> <<"water">>, recv |-> "", fn |-> "component", args |-> <<>>, kw |-> {"name", "Tc", "Pc", "Zc", "Vc", "w", "Ant", "GC"}, opt |-> "water", val |-> <<>>, reads |-> {"component"}, calls |-> {<<"", "component">>}],
     [line |-> 147, cell |-> 116, op |-> "component", tgt |-> <<"mtbe">>, recv |-> "", fn |-> "component", args |-> <<>>, kw |-> {"name", "Tc", "Pc", "Zc", "Vc", "w", "Ant", "GC"}, opt |-> "mtbe", val |-> <<>>, reads |-> {"component"}, calls |-> {<<"", "component">>}],
     [line |-> 150, cell |-> 116, op |-> "mixture", tgt |-> <<"mix">>, recv |-> "", fn |-> "+", args |-> <<"water", "mtbe">>, kw |-> {}, opt |-> "", val |-> <<>>, reads |-> {"water", "mtbe"}, calls |-> {}],
     [line |-> 151, cell |-> 116, op |-> "params", tgt |-> <<>>, recv |-> "mix", fn |-> "unifac", args |-> <<>>, kw |-> {}, opt |-> "", val |-> <<>>, reads |-> {"mix"}, calls |-> {<<"mix", "unifac">>}],
     [line |-> 152, cell |-> 116, op |-> "model", tgt |-> <<"eos">>, recv |-> "", fn |-> "preos", args |-> <<"mix">>, kw |-> {}, opt |-> "mhv_unifac", val |-> <<>>, reads |-> {"preos", "mix"}, calls |-> {<<"", "preos">>}],
     [line |-> 155, cell |-> 116, op |-> "assign", tgt |-> <<"T">>, recv |-> "", fn |-> "", args |-> <<>>, kw |-> {}, opt |-> "", val |-> <<32000000>>, reads |-> {}, calls |-> {}],
     [line |-> 156, cell |-> 116, op |-> "assign", tgt |-> <<"P">>, recv |-> "", fn |-> "", args |-> <<>>, kw |-> {}, opt |-> "", val |-> <<101000>>, reads |-> {}, calls |-> {}],
     [line |-> 157, cell |-> 116, op |-> "assign", tgt |-> <<"Z">>, recv |-> "np", fn |-> "array", args |-> <<>>, kw |-> {}, opt |-> "", val |-> <<50000000, 50000000>>, reads |-> {"np"}, calls |-> {<<"np", "array">>}],
     [line |-> 160, cell |-> 116, op |-> "assign", tgt |-> <<"x0">>, recv |-> "np", fn |-> "array", args |-> <<>>, kw |-> {}, opt |-> "", val |-> <<1000000, 99000000>>, reads |-> {"np"}, calls |-> {<<"np", "array">>}],
     [line |-> 161, cell |-> 116, op |-> "assign", tgt |-> <<"w0">>, recv |-> "np", fn |-> "array", args |-> <<>>, kw |-> {}, opt |-> "", val |-> <<99000000, 1000000>>, reads |-> {"np"}, calls |-> {<<"np", "array">>}],
     [line |-> 164, cell |-> 116, op |-> "solve", tgt |-> <<>>, recv |-> "", fn |-> "flash", args |-> <<"x0", "w0", "Z", "T", "P", "eos">>, kw |-> {"full_output"}, opt |-> "LL", val |-> <<>>, reads |-> {"flash", "x0", "w0", "Z", "T", "P", "eos"}, calls |-> {<<"", "flash">>}],
     [line |-> 194, cell |-> 189, op |-> "import", tgt |-> <<"bubblePy", "bubbleTy">>, recv |-> "", fn |-> "phasepy.equilibrium", args |-> <<>>, kw |-> {}, opt |-> "", val |-> <<>>, reads |-> {}, calls |-> {}],
     [line |-> 196, cell |-> 189, op |-> "component", tgt |-> <<"water">>, recv |-> "", fn |-> "component", args |-> <<>>, kw |-> {"name", "Tc", "Pc", "w", "GC"}, opt |-> "water", val |-> <<>>, reads |-> {"component"}, calls |-> {<<"", "component">>}],
     [line |-> 198, cell |-> 189, op |-> "component", tgt |-> <<"ethanol">>, recv |-> "", fn |-> "component", args |-> <<>>, kw |-> {"name", "Tc", "Pc", "w", "GC"}, opt |-> "ethanol", val |-> <<>>, reads |-> {"component"}, calls |-> {<<"", "component">>}],
     [line |-> 200, cell |-> 189, op |-> "mixture", tgt |-> <<"mix">>, recv |-> "", fn |-> "mixture", args |-> <<"ethanol", "water">>, kw |-> {}, opt |-> "", val |-> <<>>, reads |-> {"mixture", "ethanol", "water"}, calls |-> {<<"", "mixture">>}],
     [line |-> 202, cell |-> 189, op |-> "params", tgt |-> <<>>, recv |-> "mix", fn |-> "unifac", args |-> <<>>, kw |-> {}, opt |-> "", val |-> <<>>, reads |-> {"mix"}, calls |-> {<<"mix", "unifac">>}],
     [line |-> 203, cell |-> 189, op |-> "model", tgt |-> <<"eos">>, recv |-> "", fn |-> "preos", args |-> <<"mix">>, kw |-> {}, opt |-> "mhv_unifac", val |-> <<>>, reads |-> {"preos", "mix"}, calls |-> {<<"", "preos">>}],
     [line |-> 235, cell |-> 207, op |-> "assign", tgt |-> <<"x">>, recv |-> "np", fn |-> "array", args |-> <<>>, kw |-> {}, opt |-> "", val |-> <<50000000, 50000000>>, reads |-> {"np"}, calls |-> {<<"np", "array">>}],
     [line |-> 236, cell |-> 207, op |-> "assign", tgt |-> <<"T">>, recv |-> "", fn |-> "", args |-> <<>>, kw |-> {}, opt |-> "", val |-> <<35000000>>, reads |-> {}, calls |-> {}],
     [line |-> 239, cell |-> 207, op |-> "assign", tgt |-> <<"y0">>, recv |-> "np", fn |-> "array", args |-> <<>>, kw |-> {}, opt |-> "", val |-> <<50000000, 50000000>>, reads |-> {"np"}, calls |-> {<<"np", "array">>}],
     [line |-> 240, cell |-> 207, op |-> "assign", tgt |-> <<"P0">>, recv |-> "", fn |-> "", args |-> <<>>, kw |-> {}, opt |-> "", val |-> <<100000>>, reads |-> {}, calls |-> {}],
     [line |-> 243, cell |-> 207, op |-> "solve", tgt |-> <<>>, recv |-> "", fn |-> "bubblePy", args |-> <<"y0", "P0", "x", "T", "eos">>, kw |-> {"full_output"}, opt |-> "", val |-> <<>>, reads |-> {"bubblePy", "y0", "P0", "x", "T", "eos"}, calls |-> {<<"", "bubblePy">>}],
     [line |-> 275, cell |-> 247, op |-> "assign", tgt |-> <<"x">>, recv |-> "np", fn |-> "array", args |-> <<>>, kw |-> {}, opt |-> "", val |-> <<60000000, 40000000>>, reads |-> {"np"}, calls |-> {<<"np", "array">>}],
     [line |-> 276, cell |-> 247, op |-> "assign", tgt |-> <<"P">>, recv |-> "", fn |-> "", args |-> <<>>, kw |-> {}, opt |-> "", val |-> <<300000>>, reads |-> {}, calls |-> {}],
     [line |-> 279, cell |-> 247, op |-> "assign", tgt |-> <<"y0">>, recv |-> "np", fn |-> "array", args |-> <<>>, kw |-> {}, opt |-> "", val |-> <<50000000, 50000000>>, reads |-> {"np"}, calls |-> {<<"np", "array">>}],
     [line |-> 280, cell |-> 247, op |-> "assign", tgt |-> <<"T0">>, recv |-> "", fn |-> "", args |-> <<>>, kw |-> {}, opt |-> "", val |-> <<32000000>>, reads |-> {}, calls |-> {}],
     [line |-> 283, cell |-> 247, op |-> "solve", tgt |-> <<>>, recv |-> "", fn |-> "bubbleTy", args |-> <<"y0", "T0", "x", "P", "eos">>, kw |-> {"full_output"}, opt |-> "", val |-> <<>>, reads |-> {"bubbleTy", "y0", "T0", "x", "P", "eos"}, calls |-> {<<"", "bubbleTy">>}],
     [line |-> 313, cell |-> 308, op |-> "import", tgt |-> <<"mixture", "component", "prsveos", "rkeos">>, recv |-> "", fn |-> "phasepy", args |-> <<>>, kw |-> {}, opt |-> "", val |-> <<>>, reads |-> {}, calls |-> {}],
     [line |-> 314, cell |-> 308, op |-> "import", tgt |-> <<"dewPx", "dewTx">>, recv |-> "", fn |-> "phasepy.equilibrium", args |-> <<>>, kw |-> {}, opt |-> "", val |-> <<>>, reads |-> {}, calls |-> {}],
     [line |-> 316, cell |-> 308, op |-> "component", tgt |-> <<"ethanol">>, recv |-> "", fn |-> "component", args |-> <<>>, kw |-> {"name", "Tc", "Pc", "Zc", "Vc", "w", "ksv"}, opt |-> "ethanol", val |-> <<>>, reads |-> {"component"}, calls |-> {<<"", "component">>}],
     [line |-> 319, cell |-> 308, op |-> "component", tgt |-> <<"mtbe">>, recv |-> "", fn |-> "component", args |-> <<>>, kw |-> {"name", "Tc", "Pc", "Zc", "Vc", "w", "ksv"}, opt |-> "mtbe", val |-> <<>>, reads |-> {"component"}, calls |-> {<<"", "component">>}],
     [line |-> 322, cell |-> 308, op |-> "mixture", tgt |-> <<"mix">>, recv |-> "", fn |-> "+", args |-> <<"mtbe", "ethanol">>, kw |-> {}, opt |-> "", val |-> <<>>, reads |-> {"mtbe", "ethanol"}, calls |-> {}],
     [line |-> 323, cell |-> 308, op |-> "assign", tgt |-> <<"C0">>, recv |-> "np", fn |-> "array", args |-> <<>>, kw |-> {}, opt |-> "", val |-> <<>>, reads |-> {"np"}, calls |-> {<<"np", "array">>}],
     [line |-> 324, cell |-> 308, op |-> "assign", tgt |-> <<"C1">>, recv |-> "np", fn |-> "array", args |-> <<>>, kw |-> {}, opt |-> "", val |-> <<>>, reads |-> {"np"}, calls |-> {<<"np", "array">>}],
     [line |-> 325, cell |-> 308, op |-> "params", tgt |-> <<>>, recv |-> "mix", fn |-> "rk", args |-> <<"C0", "C1">>, kw |-> {}, opt |-> "", val |-> <<>>, reads |-> {"mix", "C0", "C1"}, calls |-> {<<"mix", "rk">>}],
     [line |-> 326, cell |-> 308, op |-> "model", tgt |-> <<"eos">>, recv |-> "", fn |-> "prsveos", args |-> <<"mix">>, kw |-> {"mixrule"}, opt |-> "mhv_rk", val |-> <<>>, reads |-> {"prsveos", "mix"}, calls |-> {<<"", "prsveos">>}],
     [line |-> 360, cell |-> 332, op |-> "assign", tgt |-> <<"y">>, recv |-> "np", fn |-> "array", args |-> <<>>, kw |-> {}, opt |-> "", val |-> <<50000000, 50000000>>, reads |-> {"np"}, calls |-> {<<"np", "array">>}],
     [line |-> 361, cell |-> 332, op |-> "assign", tgt |-> <<"T">>, recv |-> "", fn |-> "", args |-> <<>>, kw |-> {}, opt |-> "", val |-> <<35000000>>, reads |-> {}, calls |-> {}],
     [line |-> 364, cell |-> 332, op |-> "assign", tgt |-> <<"x0">>, recv |-> "np", fn |-> "array", args |-> <<>>, kw |-> {}, opt |-> "", val |-> <<50000000, 50000000>>, reads |-> {"np"}, calls |-> {<<"np", "array">>}],
     [line |-> 365, cell |-> 332, op |-> "assign", tgt |-> <<"P0">>, recv |-> "", fn |-> "", args |-> <<>>, kw |-> {}, opt |-> "", val |-> <<100000>>, reads |-> {}, calls |-> {}],
     [line |-> 369, cell |-> 332, op |-> "solve", tgt |-> <<>>, recv |-> "", fn |-> "dewPx", args |-> <<"x0", "P0", "y", "T", "eos">>, kw |-> {"full_output"}, opt |-> "", val |-> <<>>, reads |-> {"dewPx", "x0", "P0", "y", "T", "eos"}, calls |-> {<<"", "dewPx">>}],
     [line |-> 401, cell |-> 373, op |-> "assign", tgt |-> <<"y">>, recv |-> "np", fn |-> "array", args |-> <<>>, kw |-> {}, opt |-> "", val |-> <<40000000, 60000000>>, reads |-> {"np"}, calls |-> {<<"np", "array">>}],
     [line |-> 402, cell |-> 373, op |-> "assign", tgt |-> <<"P">>, recv |-> "", fn |-> "", args |-> <<>>, kw |-> {}, opt |-> "", val |-> <<100000>>, reads |-> {}, calls |-> {}],
     [line |-> 405, cell |-> 373, op |-> "assign", tgt |-> <<"x0">>, recv |-> "np", fn |-> "array", args |-> <<>>, kw |-> {}, opt |-> "", val |-> <<10000000, 90000000>>, reads |-> {"np"}, calls |-> {<<"np", "array">>}],
     [line |-> 406, cell |-> 373, op |-> "assign", tgt |-> <<"T0">>, recv |-> "", fn |-> "", args |-> <<>>, kw |-> {}, opt |-> "", val |-> <<36000000>>, reads |-> {}, calls |-> {}],
     [line |-> 410, cell |-> 373, op |-> "solve", tgt |-> <<>>, recv |-> "", fn |-> "dewTx", args |-> <<"x0", "T0", "y", "P", "eos">>, kw |-> {"full_output"}, opt |-> "", val |-> <<>>, reads |-> {"dewTx", "x0", "T0", "y", "P", "eos"}, calls |-> {<<"", "dewTx">>}],
     [line |-> 471, cell |-> 445, op |-> "import", tgt |-> <<"component", "mixture", "virialgamma", "unifac">>, recv |-> "", fn |-> "phasepy", args |-> <<>>, kw |-> {}, opt |-> "", val |-> <<>>, reads |-> {}, calls |-> {}],
     [line |-> 472, cell |-> 445, op |-> "import", tgt |-> <<"lle">>, recv |-> "", fn |-> "phasepy.equilibrium", args |-> <<>>, kw |-> {}, opt |-> "", val |-> <<>>, reads |-> {}, calls |-> {}],
     [line |-> 474, cell |-> 445, op |-> "component", tgt |-> <<"water">>, recv |-> "", fn |-> "component", args |-> <<>>, kw |-> {"name", "Tc", "Pc", "Zc", "Vc", "w", "Ant", "GC"}, opt |-> "water", val |-> <<>>, reads |-> {"component"}, calls |-> {<<"", "component">>}],
     [line |-> 478, cell |-> 445, op |-> "component", tgt |-> <<"mtbe">>, recv |-> "", fn |-> "component", args |-> <<>>, kw |-> {"name", "Tc", "Pc", "Zc", "Vc", "w", "Ant", "GC"}, opt |-> "mtbe", val |-> <<>>, reads |-> {"component"}, calls |-> {<<"", "component">>}],
     [line |-> 482, cell |-> 445, op |-> "mixture", tgt |-> <<"mix">>, recv |-> "", fn |-> "+", args |-> <<"water", "mtbe">>, kw |-> {}, opt |-> "", val |-> <<>>, reads |-> {"water", "mtbe"}, calls |-> {}],
     [line |-> 483, cell |-> 445, op |-> "params", tgt |-> <<>>, recv |-> "mix", fn |-> "unifac", args |-> <<>>, kw |-> {}, opt |-> "", val |-> <<>>, reads |-> {"mix"}, calls |-> {<<"mix", "unifac">>}],
     [line |-> 484, cell |-> 445, op |-> "model", tgt |-> <<"eos">>, recv |-> "", fn |-> "virialgamma", args |-> <<"mix">>, kw |-> {"actmodel"}, opt |-> "unifac", val |-> <<>>, reads |-> {"virialgamma", "mix"}, calls |-> {<<"", "virialgamma">>}],
     [line |-> 487, cell |-> 445, op |-> "assign", tgt |-> <<"T">>, recv |-> "", fn |-> "", args |-> <<>>, kw |-> {}, opt |-> "", val |-> <<32000000>>, reads |-> {}, calls |-> {}],
     [line |-> 488, cell |-> 445, op |-> "assign", tgt |-> <<"P">>, recv |-> "", fn |-> "", args |-> <<>>, kw |-> {}, opt |-> "", val |-> <<101000>>, reads |-> {}, calls |-> {}],
     [line |-> 489, cell |-> 445, op |-> "assign", tgt |-> <<"Z">>, recv |-> "np", fn |-> "array", args |-> <<>>, kw |-> {}, opt |-> "", val |-> <<50000000, 50000000>>, reads |-> {"np"}, calls |-> {<<"np", "array">>}],
     [line |-> 492, cell |-> 445, op |-> "assign", tgt |-> <<"x0">>, recv |-> "np", fn |-> "array", args |-> <<>>, kw |-> {}, opt |-> "", val |-> <<1000000, 99000000>>, reads |-> {"np"}, calls |-> {<<"np", "array">>}],
     [line |-> 493, cell |-> 445, op |-> "assign", tgt |-> <<"w0">>, recv |-> "np", fn |-> "array", args |-> <<>>, kw |-> {}, opt |-> "", val |-> <<99000000, 1000000>>, reads |-> {"np"}, calls |-> {<<"np", "array">>}],
     [line |-> 496, cell |-> 445, op |-> "solve", tgt |-> <<>>, recv |-> "", fn |-> "lle", args |-> <<"x0", "w0", "Z", "T", "P", "eos">>, kw |-> {"full_output"}, opt |-> "", val |-> <<>>, reads |-> {"lle", "x0", "w0", "Z", "T", "P", "eos"}, calls |-> {<<"", "lle">>}],
     [line |-> 523, cell |-> 507, op |-> "import", tgt |-> <<"lle_init">>, recv |-> "", fn |-> "phasepy.equilibrium", args |-> <<>>, kw |-> {}, opt |-> "", val |-> <<>>, reads |-> {}, calls |-> {}],
     [line |-> 524, cell |-> 507, op |-> "import", tgt |-> <<"preos">>, recv |-> "", fn |-> "phasepy", args |-> <<>>, kw |-> {}, opt |-> "", val |-> <<>>, reads |-> {}, calls |-> {}],
     [line |-> 526, cell |-> 507, op |-> "model", tgt |-> <<"eos">>, recv |-> "", fn |-> "preos", args |-> <<"mix">>, kw |-> {}, opt |-> "mhv_unifac", val |-> <<>>, reads |-> {"preos", "mix"}, calls |-> {<<"", "preos">>}],
     [line |-> 529, cell |-> 507, op |-> "assign", tgt |-> <<"T">>, recv |-> "", fn |-> "", args |-> <<>>, kw |-> {}, opt |-> "", val |-> <<32000000>>, reads |-> {}, calls |-> {}],
     [line |-> 530, cell |-> 507, op |-> "assign", tgt |-> <<"P">>, recv |-> "", fn |-> "", args |-> <<>>, kw |-> {}, opt |-> "", val |-> <<101000>>, reads |-> {}, calls |-> {}],
     [line |-> 531, cell |-> 507, op |-> "assign", tgt |-> <<"z">>, recv |-> "np", fn |-> "array", args |-> <<>>, kw |-> {}, opt |-> "", val |-> <<50000000, 50000000>>, reads |-> {"np"}, calls |-> {<<"np", "array">>}],
     [line |-> 534, cell |-> 507, op |-> "solve", tgt |-> <<>>, recv |-> "", fn |-> "lle_init", args |-> <<"z", "T", "P", "eos">>, kw |-> {}, opt |-> "", val |-> <<>>, reads |-> {"lle_init", "z", "T", "P", "eos"}, calls |-> {<<"", "lle_init">>}],
     [line |-> 578, cell |-> 573, op |-> "import", tgt |-> <<"component", "mixture", "virialgamma">>, recv |-> "", fn |-> "phasepy", args |-> <<>>, kw |-> {}, opt |-> "", val |-> <<>>, reads |-> {}, calls |-> {}],
     [line |-> 579, cell |-> 573, op |-> "import", tgt |-> <<"sle", "slle">>, recv |-> "", fn |-> "phasepy.equilibrium", args |-> <<>>, kw |-> {}, opt |-> "", val |-> <<>>, reads |-> {}, calls |-> {}],
     [line |-> 582, cell |-> 573, op |-> "assign", tgt |-> <<"hf_ibuprofen">>, recv |-> "", fn |-> "", args |-> <<>>, kw |-> {}, opt |-> "", val |-> <<>>, reads |-> {}, calls |-> {}],
     [line |-> 583, cell |-> 573, op |-> "assign", tgt |-> <<"tf_ibuprofen">>, recv |-> "", fn |-> "", args |-> <<>>, kw |-> {}, opt |-> "", val |-> <<>>, reads |-> {}, calls |-> {}],
     [line |-> 585, cell |-> 573, op |-> "component", tgt |-> <<"ibuprofen">>, recv |-> "", fn |-> "component", args |-> <<>>, kw |-> {"name", "Tc", "Pc", "Zc", "Vc", "GC", "dHf", "Tf"}, opt |-> "ibuprofen", val |-> <<>>, reads |-> {"component", "hf_ibuprofen", "tf_ibuprofen"}, calls |-> {<<"", "component">>}],
     [line |-> 589, cell |-> 573, op |-> "component", tgt |-> <<"water">>, recv |-> "", fn |-> "component", args |-> <<>>, kw |-> {"name", "Tc", "Pc", "Zc", "Vc", "GC"}, opt |-> "water", val |-> <<>>, reads |-> {"component"}, calls |-> {<<"", "component">>}],
     [line |-> 592, cell |-> 573, op |-> "component", tgt |-> <<"ethanol">>, recv |-> "", fn |-> "component", args |-> <<>>, kw |-> {"name", "Tc", "Pc", "Zc", "Vc", "GC"}, opt |-> "ethanol", val |-> <<>>, reads |-> {"component"}, calls |-> {<<"", "component">>}],
     [line |-> 595, cell |-> 573, op |-> "mixture", tgt |-> <<"mix">>, recv |-> "", fn |-> "+", args |-> <<"ibuprofen", "ethanol", "water">>, kw |-> {}, opt |-> "", val |-> <<>>, reads |-> {"ibuprofen", "ethanol", "water"}, calls |-> {}],
     [line |-> 596, cell |-> 573, op |-> "model", tgt |-> <<"eos">>, recv |-> "", fn |-> "virialgamma", args |-> <<"mix">>, kw |-> {"virialmodel", "actmodel"}, opt |-> "original_unifac", val |-> <<>>, reads |-> {"virialgamma", "mix"}, calls |-> {<<"", "virialgamma">>}],
     [line |-> 644, cell |-> 617, op |-> "assign", tgt |-> <<"P">>, recv |-> "", fn |-> "", args |-> <<>>, kw |-> {}, opt |-> "", val |-> <<101325>>, reads |-> {}, calls |-> {}],
     [line |-> 645, cell |-> 617, op |-> "assign", tgt |-> <<"T">>, recv |-> "", fn |-> "", args |-> <<>>, kw |-> {}, opt |-> "", val |-> <<31815000>>, reads |-> {}, calls |-> {}],
     [line |-> 646, cell |-> 617, op |-> "assign", tgt |-> <<"Z">>, recv |-> "np", fn |-> "array", args |-> <<>>, kw |-> {}, opt |-> "", val |-> <<60000000, 30000000, 10000000>>, reads |-> {"np"}, calls |-> {<<"np", "array">>}],
     [line |-> 649, cell |-> 617, op |-> "solve", tgt |-> <<>>, recv |-> "", fn |-> "sle", args |-> <<"Z", "T", "P", "eos">>, kw |-> {"solid_phases_index", "full_output"}, opt |-> "", val |-> <<0>>, reads |-> {"sle", "Z", "T", "P", "eos"}, calls |-> {<<"", "sle">>}] >>

(***************************************************************************)
(* The outputs stored under the solver cells of Tutorial 2.  T and P in    *)
(* units of 1e-5, phase fractions and mole fractions in units of 1e-8.     *)
(* X lists the phase compositions in the order the result shows them       *)
(* (X then Y; the rows of X; X_fluid then X_solid).                        *)
(***************************************************************************)
NoOutput ==
  [line |-> 0, T |-> 0, P |-> 0, beta |-> <<>>, tetha |-> <<>>, X |-> <<>>]

FlashLVOutput ==
  [line |-> 103, T |-> 35000000, P |-> 80000, beta |-> <<46657040>>, tetha |-> <<>>,
   X |-> << <<23951597, 76048403>>, <<58348128, 41651872>> >>]

FlashLLOutput ==
  [line |-> 164, T |-> 32000000, P |-> 101000, beta |-> <<46991089>>, tetha |-> <<>>,
   X |-> << <<5876434, 94123566>>, <<99774164, 225836>> >>]

BubblePyOutput ==
  [line |-> 243, T |-> 35000000, P |-> 89698, beta |-> <<>>, tetha |-> <<>>,
   X |-> << <<50000000, 50000000>>, <<68233401, 31766599>> >>]

BubbleTyOutput ==
  [line |-> 283, T |-> 38284576, P |-> 300000, beta |-> <<>>, tetha |-> <<>>,
   X |-> << <<60000000, 40000000>>, <<70275320, 29724680>> >>]

\* The dewPx result with its pressure read in kPa instead of bar.
DewPxOutputKPa ==
  [line |-> 369, T |-> 35000000, P |-> 15446000, beta |-> <<>>, tetha |-> <<>>,
   X |-> <<<<23512692, 76487308>>, <<50000000, 50000000>>>>]

DewPxOutput ==
  [line |-> 369, T |-> 35000000, P |-> 154460, beta |-> <<>>, tetha |-> <<>>,
   X |-> << <<23512692, 76487308>>, <<50000000, 50000000>> >>]

DewTxOutput ==
  [line |-> 410, T |-> 34175568, P |-> 100000, beta |-> <<>>, tetha |-> <<>>,
   X |-> << <<13576660, 86423340>>, <<40000000, 60000000>> >>]

LleOutput ==
  [line |-> 496, T |-> 32000000, P |-> 101000, beta |-> <<53009228, 46990772>>,
   tetha |-> <<0>>,
   X |-> << <<5876935, 94123065>>, <<99774233, 225767>> >>]

LleInitOutput ==
  [line |-> 534, T |-> 0, P |-> 0, beta |-> <<>>, tetha |-> <<>>,
   X |-> << <<99905345, 94655>>, <<25532584, 74467416>> >>]

\* An sle result that reports the solid phase both present and unstable.
SleOutputUnstable ==
  [line |-> 649, T |-> 31815000, P |-> 101325, beta |-> <<64400275, 35599725>>,
   tetha |-> <<1000000>>,
   X |-> << <<37888464, 46583652, 15527884>>, <<100000000, 0, 0>> >>]

SleOutput ==
  [line |-> 649, T |-> 31815000, P |-> 101325, beta |-> <<64400275, 35599725>>,
   tetha |-> <<0>>,
   X |-> << <<37888464, 46583652, 15527884>>, <<100000000, 0, 0>> >>]

\* Outputs left over from the run of another cell: the first flash cell
\* shows the result of the second.
StoredOutputStale(line) ==
  CASE line = 103 -> [FlashLLOutput EXCEPT !.line = 103]
    [] line = 164 -> FlashLLOutput
    [] line = 243 -> BubblePyOutput
    [] line = 283 -> BubbleTyOutput
    [] line = 369 -> DewPxOutput
    [] line = 410 -> DewTxOutput
    [] line = 496 -> LleOutput
    [] line = 534 -> LleInitOutput
    [] line = 649 -> SleOutput
    [] OTHER -> NoOutput

\* Outputs left over from the run of another cell: the bubbleTy cell shows
\* the result of the bubblePy cell above it.
StoredOutputAbove(line) ==
  CASE line = 103 -> FlashLVOutput
    [] line = 164 -> FlashLLOutput
    [] line = 243 -> BubblePyOutput
    [] line = 283 -> [BubblePyOutput EXCEPT !.line = 283]
    [] line = 369 -> DewPxOutput
    [] line = 410 -> DewTxOutput
    [] line = 496 -> LleOutput
    [] line = 534 -> LleInitOutput
    [] line = 649 -> SleOutput
    [] OTHER -> NoOutput

StoredOutput(line) ==
  CASE line = 103 -> FlashLVOutput
    [] line = 164 -> FlashLLOutput
    [] line = 243 -> BubblePyOutput
    [] line = 283 -> BubbleTyOutput
    [] line = 369 -> DewPxOutput
    [] line = 410 -> DewTxOutput
    [] line = 496 -> LleOutput
    [] line = 534 -> LleInitOutput
    [] line = 649 -> SleOutput
    [] OTHER -> NoOutput

(***************************************************************************)
(* The kernel.                                                             *)
(***************************************************************************)
Notebooks == {"screening", "tutorial1", "tutorial2"}

Program(n) ==
  CASE n = "screening" -> Screening
    [] n = "tutorial1" -> Tutorial1
    [] OTHER -> Tutorial2

\* Names every fresh Python kernel binds.
Builtins == <<"print", "len", "range">>

StmtNames(s) == s.reads \cup {s.tgt[k] : k \in DOMAIN s.tgt}

Names ==
  {Builtins[k] : k \in DOMAIN Builtins} \cup
  UNION {UNION {StmtNames(Program(n)[k]) : k \in DOMAIN Program(n)} : n \in Notebooks}

\* An object of the kernel.
\*   kind   builtin, external (imported), function (def), component,
\*          mixture, model or value
\*   attrs  component: the keywords it was created with; mixture: the
\*          parameter-setting methods called on it; model: the parameter
\*          sets the constructor found on its mixture; function: the free
\*          names of its body
\*   parts  mixture: its components in order; model: what it was built
\*          from; value: the operands it was computed from, list elements
\*   of     the object whose method or attribute returned the value, 0 if none
\*   via    the constructor, method, attribute or operator; for a component
\*          its name string
\*   rule   model: the mixing rule or activity model asked for
\*   val    the number(s) of a value
\*   line   the statement that created it
Obj(kind, attrs, parts, of, via, rule, val, line) ==
  [kind |-> kind, attrs |-> attrs, parts |-> parts, of |-> of, via |-> via,
   rule |-> rule, val |-> val, line |-> line]

NoCall ==
  [line |-> 0, recv |-> 0, fn |-> "", names |-> <<>>, argv |-> <<>>, nums |-> <<>>]

NoRow == [line |-> 0, solute |-> "", solvent |-> "", success |-> FALSE]

VARIABLES
  nb,      \* the notebook the kernel runs
  pc,      \* index of the next statement
  env,     \* the kernel namespace: name -> object id, 0 when unbound
  heap,    \* the objects created so far
  err,     \* the exception that stopped the run, "" if none
  sites,   \* the call sites of the statement just executed, resolved
  call,    \* the last call of a solver or of a method, with the objects passed
  result,  \* the output shown under the last solver cell
  iter,    \* the screening loop's iterators: the next (solute, solvent)
  stdout,  \* the last row the screening loop printed
  nsolve   \* how many times optimize.root has been called

vars == <<nb, pc, env, heap, err, sites, call, result, iter, stdout, nsolve>>

Init ==
  /\ nb \in Notebooks
  /\ pc = 1
  /\ heap = [k \in DOMAIN Builtins |->
               Obj("builtin", {}, <<>>, 0, Builtins[k], "", <<>>, 0)]
  /\ env = [n \in Names |->
              IF \E k \in DOMAIN Builtins : Builtins[k] = n
              THEN CHOOSE k \in DOMAIN Builtins : Builtins[k] = n
              ELSE 0]
  /\ err = ""
  /\ sites = {}
  /\ call = NoCall
  /\ result = NoOutput
  /\ iter = <<0, 0>>
  /\ stdout = NoRow
  /\ nsolve = 0

Running == err = "" /\ pc <= Len(Program(nb))

Stmt == Program(nb)[pc]

\* A kernel that binds only the first name of an import list or of a tuple
\* of targets.
BindsFirst(s) == IF s.tgt = <<>> THEN <<>> ELSE <<s.tgt[1]>>

\* The names a statement binds.
Binds(s) == s.tgt

\* A function of the repository that a statement names is run by it, called
\* directly (eos) or handed to the root finder (fobj_sle): the free names of
\* its body are read then.
Reads(s) ==
  s.reads \cup
  UNION {heap[env[n]].attrs :
           n \in {m \in s.reads : env[m] # 0 /\ heap[env[m]].kind = "function"}}

Unbound(s) == {n \in Reads(s) : env[n] = 0}

\* The def statement that created function object f.
DefOf(f) ==
  Program(nb)[CHOOSE k \in DOMAIN Program(nb) :
                Program(nb)[k].op = "def" /\ Program(nb)[k].line = heap[f].line]

\* What a call site <<receiver, callee>> of statement s reaches: a method of
\* an object, or the object the callee name is bound to.
Site(c, line) ==
  [recv |-> c[1], fn |-> c[2], line |-> line,
   kind |-> IF c[1] = "" THEN heap[env[c[2]]].kind ELSE "method"]

\* A statement that calls the repository functions it names instead of
\* handing them on.
OwnSitesCalled(s) ==
  IF s.op = "def" THEN {}
  ELSE s.calls \cup
       {<<"", n>> : n \in {m \in s.reads : env[m] # 0 /\ heap[env[m]].kind = "function"}}

\* The call sites of the statement itself.
OwnSites(s) == IF s.op = "def" THEN {} ELSE s.calls

\* The call sites a statement executes: its own and those of the bodies of
\* the repository functions it runs.
Sites(s) ==
  {Site(c, s.line) : c \in OwnSites(s)} \cup
  UNION {{[recv |-> c[1], fn |-> c[2], line |-> DefOf(env[n]).line,
           kind |-> IF c[1] = "" THEN heap[env[c[2]]].kind ELSE "method"] :
             c \in DefOf(env[n]).calls} :
           n \in {m \in s.reads : env[m] # 0 /\ heap[env[m]].kind = "function"}}

\* NameError: the cell stops and so does the run.
Raise ==
  /\ err' = "NameError"
  /\ UNCHANGED <<nb, pc, env, heap, sites, call, result, iter, stdout, nsolve>>

\* The namespace after binding names[k] to object base + k.
Bind(names, base) ==
  [n \in Names |->
     IF \E k \in DOMAIN names : names[k] = n
     THEN base + CHOOSE k \in DOMAIN names :
                   /\ names[k] = n
                   /\ \A m \in DOMAIN names : names[m] = n => m <= k
     ELSE env[n]]

Ids(names) == [k \in DOMAIN names |-> env[names[k]]]

\* The receiver object of the statement, 0 for none or the numpy module.
Receiver(s) == IF s.recv \in {"", "np"} THEN 0 ELSE env[s.recv]

\* The statement created objs, bound them to names and went on.
Done(objs, names) ==
  /\ heap' = heap \o objs
  /\ env' = Bind(names, Len(heap))
  /\ sites' = Sites(Stmt)
  /\ pc' = pc + 1
  /\ UNCHANGED <<nb, err>>

(***************************************************************************)
(* One action per kind of statement.                                       *)
(***************************************************************************)
Quiet == UNCHANGED <<call, result, iter, stdout, nsolve>>

\* import m / from m import a, b
Import ==
  /\ Running /\ Stmt.op = "import"
  /\ IF Unbound(Stmt) # {} THEN Raise
     ELSE /\ Done([k \in DOMAIN Binds(Stmt) |->
                     Obj("external", {}, <<>>, 0, Stmt.fn, "", <<>>, Stmt.line)],
                  Binds(Stmt))
          /\ Quiet

\* def f(...): the body is not run, only bound.
DefFunction ==
  /\ Running /\ Stmt.op = "def"
  /\ Done(<<Obj("function", Stmt.reads, <<>>, 0, Stmt.fn, "", <<>>, Stmt.line)>>,
          Binds(Stmt))
  /\ Quiet

\* c = component(name=..., Tc=..., ...)
NewComponent ==
  /\ Running /\ Stmt.op = "component"
  /\ IF Unbound(Stmt) # {} THEN Raise
     ELSE /\ Done(<<Obj("component", Stmt.kw, <<>>, 0, Stmt.opt, "", <<>>, Stmt.line)>>,
                  Binds(Stmt))
          /\ Quiet

\* A mixture that lists its components in the opposite order.
ComponentsReversed(s) ==
  [k \in DOMAIN s.args |-> env[s.args[Len(s.args) + 1 - k]]]

\* A mixture that keeps only the first component given.
ComponentsFirstOnly(s) == <<env[s.args[1]]>>

\* The components of the mixture, in the order they are given.
Components(s) == Ids(s.args)

\* mix = mixture(a, b) / mix = a + b + c: a new mixture object.
NewMixture ==
  /\ Running /\ Stmt.op = "mixture"
  /\ IF Unbound(Stmt) # {} THEN Raise
     ELSE /\ Done(<<Obj("mixture", {}, Components(Stmt), 0, Stmt.fn, "", <<>>, Stmt.line)>>,
                  Binds(Stmt))
          /\ Quiet

\* mix.add_component(c): the mixture object itself grows.
AddComponent ==
  /\ Running /\ Stmt.op = "add"
  /\ IF Unbound(Stmt) # {} THEN Raise
     ELSE /\ heap' = [heap EXCEPT ![env[Stmt.recv]].parts =
                                     Append(@, env[Stmt.args[1]])]
          /\ sites' = Sites(Stmt)
          /\ pc' = pc + 1
          /\ UNCHANGED <<nb, env, err>>
          /\ Quiet

\* mix.NRTL(...), mix.wilson(...), mix.uniquac(...), mix.rk(...),
\* mix.unifac(), mix.original_unifac(), mix.kij_cubic(...): the parameters
\* are stored on the mixture object.
SetParams ==
  /\ Running /\ Stmt.op = "params"
  /\ IF Unbound(Stmt) # {} THEN Raise
     ELSE /\ heap' = [heap EXCEPT ![env[Stmt.recv]].attrs = @ \cup {Stmt.fn}]
          /\ sites' = Sites(Stmt)
          /\ pc' = pc + 1
          /\ UNCHANGED <<nb, env, err>>
          /\ Quiet

\* The parameter sets a model constructor finds on what it is built from.
Captured(o) == IF heap[o].kind = "mixture" THEN heap[o].attrs ELSE {}

\* eos = preos(x, rule) / prsveos(x, mixrule=rule) / virialgamma(x, actmodel=rule)
NewModel ==
  /\ Running /\ Stmt.op = "model"
  /\ IF Unbound(Stmt) # {} THEN Raise
     ELSE /\ Done(<<Obj("model", Captured(env[Stmt.args[1]]), <<env[Stmt.args[1]]>>,
                        0, Stmt.fn, Stmt.opt, <<>>, Stmt.line)>>,
                  Binds(Stmt))
          /\ Quiet

\* t = literal / np.array(...) / [a, b, ...] / a * b / obj.attr[k]; a tuple
\* of targets binds one value each.
Assign ==
  /\ Running /\ Stmt.op = "assign"
  /\ IF Unbound(Stmt) # {} THEN Raise
     ELSE /\ Done([k \in DOMAIN Binds(Stmt) |->
                     Obj("value", {}, Ids(Stmt.args), Receiver(Stmt), Stmt.fn, "",
                         Stmt.val, Stmt.line)],
                  Binds(Stmt))
          /\ Quiet

\* What a call returns as a number: len(list) is the number of elements,
\* everything else is computed by the library.
Returned(s) ==
  IF s.fn = "len" THEN <<Len(heap[env[s.args[1]]].parts)>> ELSE <<>>

\* print(...), len(...), obj.method(...): the values returned are bound to
\* the targets, if any.
Call ==
  /\ Running /\ Stmt.op = "call"
  /\ IF Unbound(Stmt) # {} THEN Raise
     ELSE /\ Done([k \in DOMAIN Binds(Stmt) |->
                     Obj("value", {}, Ids(Stmt.args), Receiver(Stmt), Stmt.fn, "",
                         Returned(Stmt), Stmt.line)],
                  Binds(Stmt))
          /\ call' = IF Receiver(Stmt) = 0 THEN call
                     ELSE [line |-> Stmt.line, recv |-> Receiver(Stmt),
                           fn |-> Stmt.fn, names |-> Stmt.args,
                           argv |-> Ids(Stmt.args), nums |-> <<>>]
          /\ UNCHANGED <<result, iter, stdout, nsolve>>

\* flash(...), bubblePy(...), ..., lle(...), lle_init(...), sle(...) as the
\* last expression of a cell: the result is shown, nothing is bound.
Solve ==
  /\ Running /\ Stmt.op = "solve"
  /\ IF Unbound(Stmt) # {} THEN Raise
     ELSE /\ call' = [line |-> Stmt.line, recv |-> 0, fn |-> Stmt.fn,
                      names |-> Stmt.args, argv |-> Ids(Stmt.args),
                      nums |-> Stmt.val]
          /\ result' = StoredOutput(Stmt.line)
          /\ sites' = Sites(Stmt)
          /\ pc' = pc + 1
          /\ UNCHANGED <<nb, env, heap, err, iter, stdout, nsolve>>

(***************************************************************************)
(* The screening loop                                                      *)
(*   for i in range(nSOLU):                                                *)
(*       for j in range(nSOLV):                                            *)
(*           out = optimize.root(fobj_sle, xs0, args = (T, P, dHm[i],      *)
(*                               Tm[i], eos(solvents[j], solutes[i])))     *)
(*           print(f"| {solutes[i].name} | {solvents[j].name} | ...        *)
(*                    {out.x[0]**2}| {out.success}")                       *)
(***************************************************************************)
Num(n) == heap[env[n]].val[1]

\* The object a name was bound to is freed when the loop rebinds the name,
\* and the new object takes its place.
Slot(n, h) == IF env[n] # 0 THEN env[n] ELSE Len(h) + 1

Put(h, id, o) == IF id <= Len(h) THEN [h EXCEPT ![id] = o] ELSE Append(h, o)

\* The loop headers: bind the next pair, or leave the loop.
ForNext ==
  /\ Running /\ Stmt.op = "for"
  /\ IF Unbound(Stmt) # {} THEN Raise
     ELSE LET io == iter[1]
              jo == iter[2]
              mk(v) == Obj("value", {}, <<>>, 0, "range", "", <<v>>, Stmt.line)
              si == Slot(Stmt.tgt[1], heap)
              h1 == IF jo = 0 THEN Put(heap, si, mk(io)) ELSE heap
              sj == Slot(Stmt.tgt[2], h1)
          IN  IF io < Num(Stmt.args[1]) /\ jo < Num(Stmt.args[2])
              THEN /\ heap' = Put(h1, sj, mk(jo))
                   /\ env' = IF jo = 0
                             THEN [env EXCEPT ![Stmt.tgt[1]] = si, ![Stmt.tgt[2]] = sj]
                             ELSE [env EXCEPT ![Stmt.tgt[2]] = sj]
                   /\ iter' = IF jo + 1 < Num(Stmt.args[2])
                              THEN <<io, jo + 1>> ELSE <<io + 1, 0>>
                   /\ pc' = pc + 1
                   /\ sites' = Sites(Stmt)
                   /\ UNCHANGED <<nb, err, call, result, stdout, nsolve>>
              ELSE /\ pc' = pc + 1 + Stmt.val[1]
                   /\ sites' = Sites(Stmt)
                   /\ UNCHANGED <<nb, env, heap, err, call, result, iter,
                                  stdout, nsolve>>

\* The outcomes optimize.root can report in out.success.
Outcomes == {0, 1}

\* The initial guess handed to the root finder.
Guess == Num("xs0")

\* out = optimize.root(fobj_sle, xs0, args=(T, P, dHm[i], Tm[i], eos(...))):
\* eos builds the mixture SOLVENT + SOLUTE and its pcsaft model, the root
\* finder runs fobj_sle on it and returns its status.
RootSolve ==
  /\ Running /\ Stmt.op = "root"
  /\ IF Unbound(Stmt) # {} THEN Raise
     ELSE LET i == Num("i")
              j == Num("j")
              solvent == heap[env["solvents"]].parts[j + 1]
              solute == heap[env["solutes"]].parts[i + 1]
              o == IF env[Stmt.tgt[1]] # 0 THEN env[Stmt.tgt[1]] ELSE Len(heap) + 3
              eosline == heap[env["eos"]].line
              mix == Obj("mixture", {}, <<solvent, solute>>, 0, "+", "", <<>>, eosline)
              saft == Obj("model", {}, <<o - 2>>, 0, "pcsaft", "", <<>>, eosline)
              out(ok) == Obj("value", {}, <<o - 1>>, env["optimize"], "root", "",
                             <<ok>>, Stmt.line)
          IN  \E ok \in Outcomes :
                /\ heap' = Put(Put(Put(heap, o - 2, mix), o - 1, saft), o, out(ok))
                /\ env' = [env EXCEPT ![Stmt.tgt[1]] = o]
                /\ call' = [line |-> Stmt.line, recv |-> env[Stmt.recv],
                            fn |-> Stmt.fn, names |-> Stmt.args,
                            argv |-> <<env["fobj_sle"], o - 1>>,
                            nums |-> <<Guess, Num("T"), Num("P"),
                                       heap[env["dHm"]].val[i + 1],
                                       heap[env["Tm"]].val[i + 1]>>]
                /\ nsolve' = nsolve + 1
                /\ sites' = Sites(Stmt)
                /\ pc' = pc + 1
                /\ UNCHANGED <<nb, err, result, iter, stdout>>

\* A loop that solves a pair again when the root finder reports failure.
RetryFailed(ok) == IF ok THEN "next" ELSE "again"

\* Where the loop goes after a row, given the status printed: always on to
\* the loop header.
AfterRow(ok) == "next"

\* The header of the loop a body statement belongs to.
LoopHead(k) ==
  CHOOSE h \in 1..k : /\ Program(nb)[h].op = "for"
                      /\ \A g \in 1..k : Program(nb)[g].op = "for" => g <= h

PrintRow ==
  /\ Running /\ Stmt.op = "row"
  /\ IF Unbound(Stmt) # {} THEN Raise
     ELSE LET ok == Num("out") = 1
          IN  /\ stdout' =
                   [line |-> Stmt.line,
                    solute |-> heap[heap[env["solutes"]].parts[Num("i") + 1]].via,
                    solvent |-> heap[heap[env["solvents"]].parts[Num("j") + 1]].via,
                    success |-> ok]
              /\ pc' = IF AfterRow(ok) = "next" THEN LoopHead(pc) ELSE pc - 1
              /\ sites' = Sites(Stmt)
              /\ UNCHANGED <<nb, env, heap, err, call, result, iter, nsolve>>

Next ==
  \/ Import
  \/ DefFunction
  \/ NewComponent
  \/ NewMixture
  \/ AddComponent
  \/ SetParams
  \/ NewModel
  \/ Assign
  \/ Call
  \/ Solve
  \/ ForNext
  \/ RootSolve
  \/ PrintRow

Spec == Init /\ [][Next]_vars

Finished == err = "" /\ pc > Len(Program(nb))

(***************************************************************************)
(* Properties.                                                             *)
(***************************************************************************)
At(n, op) == nb = n /\ Running /\ Stmt.op = op

\* The statement of notebook n that binds the single name t.
Binding(n, t) ==
  Program(n)[CHOOSE k \in DOMAIN Program(n) : Program(n)[k].tgt = <<t>>]

\* What the screening cells say the root finder gets for solute i (from 0):
\* xs0, T, P, dHm[i], Tm[i] as written in the notebook.
WrittenInputs(i) ==
  <<Binding("screening", "xs0").val[1],
    Binding("screening", "T").val[1],
    Binding("screening", "P").val[1],
    Binding("screening", "dHm").val[i + 1],
    Binding("screening", "Tm").val[i + 1]>>

\* The pairs the loop has started so far, counting the current one.
PairsStarted == Num("i") * Num("nSOLV") + Num("j") + 1

\* C1: in the screening loop a solve that does not converge is not handled:
\* the row printed for a pair carries the success flag optimize.root
\* returned for it, each pair is solved exactly once (no retry, no other
\* initial guess), and the next pair is solved with the inputs written in
\* the notebook, whatever the earlier solves reported.
C1_FailureNotHandled ==
  /\ At("screening", "row") =>
       /\ nsolve = PairsStarted
       /\ call.fn = "root"
       /\ call.nums = WrittenInputs(Num("i"))
       /\ heap[heap[call.argv[2]].parts[1]].parts =
            <<heap[env["solvents"]].parts[Num("j") + 1],
              heap[env["solutes"]].parts[Num("i") + 1]>>
  /\ (At("screening", "for") /\ stdout.line # 0) =>
       /\ nsolve = PairsStarted
       /\ stdout.success = (Num("out") = 1)
       /\ stdout.solute = heap[heap[env["solutes"]].parts[Num("i") + 1]].via
       /\ stdout.solvent = heap[heap[env["solvents"]].parts[Num("j") + 1]].via

\* A failed solve has been printed and the next pair has been solved.
C1_Witness ==
  /\ At("screening", "row")
  /\ stdout.line # 0 /\ ~stdout.success
  /\ nsolve = PairsStarted /\ nsolve >= 2
  /\ call.nums = WrittenInputs(Num("i"))

\* C2: run in document order on a fresh kernel, no statement of any
\* notebook reads a name that is unbound: the run never stops on a
\* NameError and every name the next statement reads is bound.
C2_NoUnboundRead ==
  /\ err = ""
  /\ Running => Unbound(Stmt) = {}

\* Tutorial 1 is about to compute rhoad from rofactor, which the pure water
\* cell bound, and Tutorial 1 has got that far without an error.
C2_Witness ==
  /\ nb = "tutorial1" /\ Running /\ Stmt.line = 355
  /\ "rofactor" \in Stmt.reads
  /\ heap[env["rofactor"]].line = 186

\* C3 as stated: the repository defines no function and no call site
\* reaches a function whose body is in the repository.
C3_NoRepositoryFunction ==
  /\ \A k \in DOMAIN heap : heap[k].kind # "function"
  /\ \A c \in sites : c.kind # "function"

\* C3, amended: the two tutorials define no function and call only
\* library APIs and builtins; the screening notebook defines eos and
\* fobj_sle, calls eos in the loop statement (line 133) and hands fobj_sle
\* to optimize.root; every other call site reaches a library API, a builtin
\* or a method of a library object.
C3_OnlyScreeningDefines ==
  /\ \A k \in DOMAIN heap :
       heap[k].kind = "function" =>
         nb = "screening" /\ heap[k].via \in {"eos", "fobj_sle"}
  /\ \A c \in sites :
       /\ c.kind \in {"function", "external", "builtin", "method"}
       /\ c.kind = "function" =>
            nb = "screening" /\ c.fn = "eos" /\ c.recv = "" /\ c.line = 133

\* The loop statement has just called eos, next to optimize.root.
C3_Witness ==
  /\ nb = "screening"
  /\ \E c \in sites : c.kind = "function" /\ c.fn = "eos"
  /\ \E c \in sites : c.kind = "method" /\ c.fn = "root"

\* The parameter-setting method of a mixture that goes with an activity
\* model or a mixing rule.
ParamMethod(rule) ==
  CASE rule \in {"nrtl", "mhv_nrtl", "ws_nrtl"} -> "NRTL"
    [] rule \in {"wilson", "mhv_wilson", "ws_wilson"} -> "wilson"
    [] rule \in {"uniquac", "mhv_uniquac", "ws_uniquac"} -> "uniquac"
    [] rule \in {"rk", "mhv_rk", "ws_rk"} -> "rk"
    [] rule \in {"unifac", "mhv_unifac", "ws_unifac"} -> "unifac"
    [] rule \in {"original_unifac", "mhv_original_unifac", "ws_original_unifac"} ->
         "original_unifac"
    [] rule = "qmr" -> "kij_cubic"
    [] OTHER -> "none"

Tutorials == {"tutorial1", "tutorial2"}

\* C4: in both tutorials every model built from a mixture with a named
\* activity model or mixing rule finds on that mixture object the
\* parameters of the matching method, set before the constructor ran.
C4_ParamsBeforeModel ==
  nb \in Tutorials =>
    \A k \in DOMAIN heap :
      (heap[k].kind = "model" /\ heap[k].rule # "") =>
        ParamMethod(heap[k].rule) \in heap[k].attrs

\* C5: in Tutorial 1 every mixture on which uniquac has been called is made
\* of components created with both ri and qi.
C5_UniquacHasRiQi ==
  nb = "tutorial1" =>
    \A k \in DOMAIN heap :
      (heap[k].kind = "mixture" /\ "uniquac" \in heap[k].attrs) =>
        \A p \in DOMAIN heap[k].parts :
          {"ri", "qi"} \subseteq heap[heap[k].parts[p]].attrs

\* C6: in Tutorial 1 the density vector passed to muad of a mixture model
\* is x * (1/v * b0) with v returned by that model and b0 its attribute
\* b[0].
C6_DensityFromSameEos ==
  (/\ nb = "tutorial1"
   /\ call.fn = "muad"
   /\ heap[heap[call.recv].parts[1]].kind = "mixture") =>
    LET rhovector == heap[call.argv[1]]
        rhoad == heap[rhovector.parts[2]]
        v == heap[rhoad.parts[1]]
        b0 == heap[rhoad.parts[2]]
    IN  /\ heap[rhovector.parts[1]].via = "array"
        /\ v.of = call.recv
        /\ b0.of = call.recv /\ b0.via = "b" /\ b0.val = <<0>>

\* C7: in the lle and sle results of Tutorial 2 every phase k other than
\* the reference phase has beta_k * tetha_k = 0 (one of the two is zero).
C7_FractionTimesStability ==
  \A k \in DOMAIN result.tetha :
    result.beta[k + 1] = 0 \/ result.tetha[k] = 0

\* The sle result is shown: the solid phase is present and stable.
C7_Witness ==
  /\ result.line = 649
  /\ result.tetha = <<0>>
  /\ result.beta[2] > 0

\* a * b / 1e8 rounded down, for a and b below 2e8, without leaving 32 bits.
TimesFraction(a, b) ==
  LET h == 10000
      ah == a \div h
      al == a % h
      bh == b \div h
      bl == b % h
  IN  ah * bh + ((ah * bl + al * bh) + ((al * bl) \div h)) \div h

RECURSIVE SumOver(_, _)
SumOver(f, n) == IF n = 0 THEN 0 ELSE f[n] + SumOver(f, n - 1)

\* The phase fractions of a result: (1 - beta, beta) for a flash, beta for
\* lle and sle.
Fractions(r) ==
  IF Len(r.beta) = 1 THEN <<10000 * 10000 - r.beta[1], r.beta[1]>> ELSE r.beta

\* The object passed to the last solver call under name n.
Passed(n) ==
  call.argv[CHOOSE k \in DOMAIN call.names : call.names[k] = n]

\* C8: every flash, lle and sle result of Tutorial 2 balances with the
\* feed Z passed to the solver: for every component i the sum over the
\* phases of fraction * mole fraction is z_i within 1e-6, and the fractions
\* sum to one within 1e-6.
C8_MaterialBalance ==
  (result.line # 0 /\ result.beta # <<>>) =>
    LET z == heap[Passed("Z")].val
        fr == Fractions(result)
        total == SumOver(fr, Len(fr))
    IN  /\ Len(result.X) = Len(fr)
        /\ total - 10000 * 10000 \in -100..100
        /\ \A i \in DOMAIN z :
             LET zi == SumOver([k \in DOMAIN fr |->
                                  TimesFraction(fr[k], result.X[k][i])], Len(fr))
             IN  z[i] - zi \in -100..100

\* The first flash result is shown for the feed (0.4, 0.6).
C8_Witness ==
  /\ result.line = 103 /\ call.line = 103
  /\ heap[Passed("Z")].val = <<40000000, 60000000>>
  /\ Len(result.beta) = 1

\* The mixture of the model passed to the last solver call.
SolverMixture == heap[heap[Passed("eos")].parts[1]]

\* C9: in the sle call every index of solid_phases_index names, in the
\* component order of the mixture of the eos, a component created with
\* dHf and Tf; index 0 is ibuprofen, the only such component.
C9_SolidHasFusionData ==
  call.fn = "sle" =>
    /\ \A n \in DOMAIN call.nums :
         /\ call.nums[n] + 1 \in DOMAIN SolverMixture.parts
         /\ {"dHf", "Tf"} \subseteq heap[SolverMixture.parts[call.nums[n] + 1]].attrs
    /\ heap[SolverMixture.parts[1]].via = "ibuprofen"
    /\ \A p \in DOMAIN SolverMixture.parts :
         ({"dHf", "Tf"} \cap heap[SolverMixture.parts[p]].attrs # {}) => p = 1

\* sle has been called with solid_phases_index = [0] on the ternary mixture.
C9_Witness ==
  /\ call.fn = "sle" /\ call.nums = <<0>>
  /\ Len(SolverMixture.parts) = 3

\* C10: in the sle example one liquid phase plus one solid phase per entry
\* of solid_phases_index is at most the number of components, and the
\* result shows no more phases than that.
C10_PhaseRule ==
  call.fn = "sle" =>
    /\ 1 + Len(call.nums) <= Len(SolverMixture.parts)
    /\ Len(result.beta) <= 1 + Len(call.nums)
    /\ Len(result.X) <= 1 + Len(call.nums)

\* The sle result shows two phases for three components.
C10_Witness ==
  /\ call.fn = "sle" /\ result.line = 649
  /\ Len(result.beta) = 2 /\ Len(result.X) = 2
  /\ Len(SolverMixture.parts) = 3

\* The number(s) passed to the last solver call under name n.
Given(n) == heap[Passed(n)].val

\* C11: the four saturation-point results return what was specified:
\* bubblePy X = x and T = T, bubbleTy X = x and P = P, dewPx Y = y and
\* T = T, dewTx Y = y and P = P.
C11_SpecifiedReturned ==
  /\ call.fn = "bubblePy" =>
       result.X[1] = Given("x") /\ <<result.T>> = Given("T")
  /\ call.fn = "bubbleTy" =>
       result.X[1] = Given("x") /\ <<result.P>> = Given("P")
  /\ call.fn = "dewPx" =>
       result.X[2] = Given("y") /\ <<result.T>> = Given("T")
  /\ call.fn = "dewTx" =>
       result.X[2] = Given("y") /\ <<result.P>> = Given("P")

\* The dewTx result is shown for y = (0.4, 0.6) and P = 1.
C11_Witness ==
  /\ call.fn = "dewTx" /\ result.line = 410
  /\ Given("y") = <<40000000, 60000000>>
  /\ Given("P") = <<100000>>
  /\ result.T # 0

\* The pressure above which the tutorial says the Modified Huron-Vidal rule
\* must not be used: 5 bar.
FiveBar == 500000

MHV == {"mhv_unifac", "mhv_nrtl", "mhv_rk"}

\* The model the last call computes with: the receiver of a method call,
\* the eos argument of a solver call.
UsedModel ==
  IF call.recv # 0 THEN heap[call.recv]
  ELSE IF \E k \in DOMAIN call.names : call.names[k] = "eos"
       THEN heap[Passed("eos")]
       ELSE heap[1]

\* C12: every call that computes with a Modified Huron-Vidal model is given
\* pressures (specified P, initial guess P0) of at most 5 bar, and the
\* result shown for it has a pressure of at most 5 bar.
C12_MhvAtLowPressure ==
  (call.line # 0 /\ UsedModel.kind = "model" /\ UsedModel.rule \in MHV) =>
     /\ \A k \in DOMAIN call.names :
          call.names[k] \in {"P", "P0"} => heap[call.argv[k]].val[1] <= FiveBar
     /\ call.recv = 0 => result.P <= FiveBar

\* The dewPx call with the PRSV 'mhv_rk' model: guess 1 bar, result 1.5446 bar.
C12_Witness ==
  /\ call.fn = "dewPx" /\ UsedModel.rule = "mhv_rk"
  /\ Given("P0") = <<100000>>
  /\ result.P = 154460

(***************************************************************************)
(* fobj_sle under the root finder.  optimize.root(fobj_sle, xs0, args=...) *)
(* calls fobj_sle(inc, ...) with iterates inc of its own choosing; the     *)
(* unknown inc[0] is kept in hundredths, its square and the mole fractions *)
(* in ten-thousandths.                                                     *)
(***************************************************************************)

\* The iterates inc[0] lie in -MaxInc .. MaxInc hundredths.
MaxInc == 150

One == 10000

\*   xs = inc[0]**2
\*   xsolv = 1 - xs
\*   x = np.array([xsolv, xs])
fobj_sle_x(inc) == <<One - inc * inc, inc * inc>>

\* optimize.root(fobj_sle, xs0, ...) first evaluates fobj_sle at the
\* starting point xs0 = 0.1.
InitFobj ==
  /\ nb = "screening"
  /\ pc = 0
  /\ heap = [k \in DOMAIN Builtins |->
               Obj("builtin", {}, <<>>, 0, Builtins[k], "", <<>>, 0)]
  /\ env = [n \in Names |-> 0]
  /\ err = ""
  /\ sites = {}
  /\ call = [line |-> 133, recv |-> 0, fn |-> "fobj_sle",
             names |-> <<"inc">>, argv |-> <<>>, nums |-> <<10>>]
  /\ result = NoOutput
  /\ iter = <<0, 0>>
  /\ stdout = NoRow
  /\ nsolve = 0

\* The body of fobj_sle up to lngamma = saft.get_lngamma(x, T, P).
fobj_sle ==
  /\ call.fn = "fobj_sle"
  /\ call' = [line |-> 32, recv |-> 0, fn |-> "get_lngamma",
              names |-> <<"x", "T", "P">>, argv |-> <<>>,
              nums |-> fobj_sle_x(call.nums[1])]
  /\ UNCHANGED <<nb, pc, env, heap, err, sites, result, iter, stdout, nsolve>>

\* fobj_sle returned fo; the root finder evaluates it at its next iterate.
NextIterate ==
  /\ call.fn = "get_lngamma"
  /\ \E inc \in -MaxInc .. MaxInc :
       call' = [line |-> 133, recv |-> 0, fn |-> "fobj_sle",
                names |-> <<"inc">>, argv |-> <<>>, nums |-> <<inc>>]
  /\ UNCHANGED <<nb, pc, env, heap, err, sites, result, iter, stdout, nsolve>>

NextFobj == fobj_sle \/ NextIterate

SpecFobj == InitFobj /\ [][NextFobj]_vars

\* C13: for every inc[0] the root finder passes, the composition
\* x = [1 - inc[0]^2, inc[0]^2] handed to get_lngamma has both entries in
\* [0, 1] and the entries sum to 1.
C13_CompositionValid ==
  call.fn = "get_lngamma" =>
     /\ \A k \in 1..2 : 0 <= call.nums[k] /\ call.nums[k] <= One
     /\ call.nums[1] + call.nums[2] = One

(***************************************************************************)
(* The "execution_count" recorded with each code cell, by notebook and by  *)
(* the line the cell starts at.                                            *)
(***************************************************************************)
ExecutionCount(n, cell) ==
  CASE n = "screening" ->
         (CASE cell = 4 -> 2 [] cell = 16 -> 3 [] cell = 42 -> 4
            [] cell = 86 -> 5)
    [] n = "tutorial1" ->
         (CASE cell = 35 -> 1 [] cell = 69 -> 4 [] cell = 107 -> 25
            [] cell = 151 -> 44 [] cell = 214 -> 27 [] cell = 250 -> 28
            [] cell = 292 -> 46 [] cell = 326 -> 53 [] cell = 405 -> 29
            [] cell = 445 -> 30 [] cell = 482 -> 31 [] cell = 518 -> 32
            [] cell = 537 -> 33 [] cell = 570 -> 34 [] cell = 607 -> 35
            [] cell = 626 -> 36 [] cell = 669 -> 27)
    [] n = "tutorial2" ->
         (CASE cell = 34 -> 1 [] cell = 55 -> 2 [] cell = 116 -> 3
            [] cell = 189 -> 4 [] cell = 207 -> 5 [] cell = 247 -> 6
            [] cell = 308 -> 7 [] cell = 332 -> 8 [] cell = 373 -> 9
            [] cell = 445 -> 28 [] cell = 507 -> 23 [] cell = 573 -> 34
            [] cell = 617 -> 36)

\* The kernel is about to run the first statement of a cell other than the
\* notebook's first.
EntersCell == Running /\ pc > 1 /\ Stmt.cell # Program(nb)[pc - 1].cell

\* C14: in each notebook the recorded execution counts strictly increase in
\* document order: when the document-order run passes from one code cell to
\* the next, the cell it leaves was recorded with a smaller count than the
\* cell it enters.
C14_CountsIncrease ==
  EntersCell =>
    ExecutionCount(nb, Program(nb)[pc - 1].cell) < ExecutionCount(nb, Stmt.cell)

(***************************************************************************)
(* Python floats.  A literal such as 0.6 is parsed to the nearest binary   *)
(* double, and a + b is the exact sum rounded to the nearest double, ties  *)
(* to even.  A binary number below 2 is a sequence of bits b with b[1] of  *)
(* weight 1 and b[k + 1] of weight 2^-k; a decimal is an integer count of  *)
(* 1e-8.                                                                   *)
(***************************************************************************)

\* Binary digits kept after the point, in groups of four; a double of at
\* least 1e-8 has none beyond the 80th.
HexDigits == 21

FracBits == 4 * HexDigits

\* Significant bits of a double.
Mantissa == 53

\* A binary number given digit by digit, as a sequence.
Bits(f) == SubSeq(f, 1, FracBits + 1)

Zeros == Bits([i \in 1 .. FracBits + 1 |-> 0])

BitAt(k) == [Zeros EXCEPT ![k] = 1]

\* The carry into position i - 1 of a + b: some position from i on
\* generates a carry and every position before it passes it on.
Carry(a, b, i) ==
  IF \E j \in i .. Len(a) :
       /\ a[j] + b[j] = 2
       /\ \A k \in i .. j - 1 : a[k] + b[k] = 1
  THEN 1 ELSE 0

\* The exact sum of two binary numbers whose sum is below 2.
Plus(a, b) ==
  Bits([i \in DOMAIN a |-> (a[i] + b[i] + Carry(a, b, i + 1)) % 2])

\* The position of the leading one, 0 for zero.
Leading(b) ==
  IF \A i \in DOMAIN b : b[i] = 0 THEN 0
  ELSE CHOOSE i \in DOMAIN b : b[i] = 1 /\ \A j \in 1 .. i - 1 : b[j] = 0

\* Rounding to Mantissa significant bits, to nearest, ties to even.
RoundNearestEven(b) ==
  LET last == Leading(b) + Mantissa - 1
  IN  IF Leading(b) = 0 \/ last >= Len(b) THEN b
      ELSE LET kept == Bits([i \in DOMAIN b |-> IF i <= last THEN b[i] ELSE 0])
               up == /\ b[last + 1] = 1
                     /\ \/ b[last] = 1
                        \/ \E i \in last + 2 .. Len(b) : b[i] = 1
           IN  IF up THEN Plus(kept, BitAt(last)) ELSE kept

\* The first 4 * k binary digits of r / 1e8 after the point, for r below
\* 1e8, four at a time.
RECURSIVE Expand(_, _)
Expand(r, k) ==
  IF k = 0 THEN <<>>
  ELSE LET d == (16 * r) \div (10000 * 10000)
       IN  <<d \div 8, (d \div 4) % 2, (d \div 2) % 2, d % 2>>
             \o Expand((16 * r) % (10000 * 10000), k - 1)

\* What is left of r / 1e8 after 4 * k binary digits.
RECURSIVE Remainder(_, _)
Remainder(r, k) ==
  IF k = 0 THEN r ELSE Remainder((16 * r) % (10000 * 10000), k - 1)

\* float("0.dddddddd"): the double nearest to n / 1e8, for n up to 1e8.  The
\* last digit of the expansion stands for all the digits cut off.
Float64(n) ==
  LET r == n % (10000 * 10000)
      digits == <<n \div (10000 * 10000)>> \o Expand(r, HexDigits)
      cut == IF Remainder(r, HexDigits) = 0 THEN 0 ELSE 1
  IN  RoundNearestEven([digits EXCEPT ![FracBits + 1] = IF cut = 1 THEN 1 ELSE @])

\* a + b cut off after Mantissa bits instead of rounded to nearest.
FloatAddChopped(a, b) ==
  LET s == Plus(a, b)
      last == Leading(s) + Mantissa - 1
  IN  Bits([i \in DOMAIN s |-> IF i <= last THEN s[i] ELSE 0])

\* a + b on doubles.
FloatAdd(a, b) == RoundNearestEven(Plus(a, b))

\* v[1] + v[2] + ... + v[n] from left to right, as np.sum and a Python loop
\* add the entries of a short array.
RECURSIVE FloatSum(_, _)
FloatSum(v, n) ==
  IF n = 0 THEN Zeros ELSE FloatAdd(FloatSum(v, n - 1), Float64(v[n]))

\* 1.0, and the double just below it, 1 - 2^-53 = 0.9999999999999999.
OneDouble == BitAt(1)

BelowOne ==
  Bits([i \in DOMAIN Zeros |-> IF i \in 2 .. Mantissa + 1 THEN 1 ELSE 0])

\* The composition vectors among the arguments of the last solver call:
\* feed, specified phase, initial guesses.
CompositionNames == {"Z", "z", "x", "y", "x0", "y0", "w0"}

Compositions ==
  {heap[call.argv[k]].val :
     k \in {j \in DOMAIN call.names : call.names[j] \in CompositionNames}}

SolverCalled == nb = "tutorial2" /\ call.line # 0 /\ call.recv = 0

\* C15: in Tutorial 2 every composition vector passed to a solver has as
\* many entries as the mixture of the eos of that call has components, has
\* only non-negative entries, and sums to exactly one.
C15_SumsToExactlyOne ==
  SolverCalled =>
    \A v \in Compositions :
      /\ Len(v) = Len(SolverMixture.parts)
      /\ \A i \in DOMAIN v : v[i] >= 0
      /\ FloatSum(v, Len(v)) = OneDouble

\* C15 as amended: every composition vector passed to a solver has as many
\* entries as the mixture has components and only non-negative entries; its
\* entries as written in decimal sum to exactly one; added as doubles from
\* left to right they give 1.0, except for the feed Z = [0.6, 0.3, 0.1] of
\* the sle call, which gives 1 - 2^-53.
C15_SumsToOneAsWritten ==
  SolverCalled =>
    \A v \in Compositions :
      /\ Len(v) = Len(SolverMixture.parts)
      /\ \A i \in DOMAIN v : v[i] >= 0
      /\ SumOver(v, Len(v)) = 10000 * 10000
      /\ FloatSum(v, Len(v)) = IF call.fn = "sle" THEN BelowOne ELSE OneDouble

\* sle has been called with the feed Z = [0.6, 0.3, 0.1] on the ternary
\* mixture, and the three doubles add up to the double below 1.0.
C15_Witness ==
  /\ SolverCalled /\ call.fn = "sle"
  /\ Compositions = {<<60000000, 30000000, 10000000>>}
  /\ Len(SolverMixture.parts) = 3
  /\ FloatSum(Given("Z"), 3) = BelowOne

=============================================================================
